---- MODULE Spec2Model ----
(***************************************************************************)
(* Attempt engine of the computer-based-test backend                       *)
(* (src/src/services/attemptService.ts, src/src/models/AppSetting.ts,      *)
(* src/unnamed/part_020).  The Attempt collection is a sequence of         *)
(* documents; the id of an attempt is its index.  Numbers that the code    *)
(* keeps as fractions (scores) are counted in thousandths; dates are       *)
(* milliseconds.                                                           *)
(***************************************************************************)
EXTENDS Integers, Sequences, FiniteSets, TLC

VARIABLES exam, attempts, now, starting, starts, inflight

vars == <<exam, attempts, now, starting, starts, inflight>>

(* ------------------------------ bounds --------------------------------- *)
MaxTicks == 2
MaxStarting == 2
MaxLogs == 1
MaxInflight == 2
MaxOverlapLogs == 2

(* --------------------------- typed "undefined" ------------------------- *)
Undef == "undefined"
NoNum == -1
Point == 1000
MsPerMin == 60 * 1000

Users == {"u1", "u2"}
ExamId == "e1"

(* --------------------------- question catalog -------------------------- *)
(* assertionreason questions with every other setting of the three flags   *)
(* <<assertionIsTrue, reasonIsTrue, reasonExplainsAssertion>> (q6 has       *)
(* <<TRUE, TRUE, FALSE>>)                                                   *)
AssertionReasonFlags ==
  [arTTT |-> <<TRUE, TRUE, TRUE>>, arTFT |-> <<TRUE, FALSE, TRUE>>,
   arTFF |-> <<TRUE, FALSE, FALSE>>, arFTT |-> <<FALSE, TRUE, TRUE>>,
   arFTF |-> <<FALSE, TRUE, FALSE>>, arFFT |-> <<FALSE, FALSE, TRUE>>,
   arFFF |-> <<FALSE, FALSE, FALSE>>]

QuestionIds == {"q1", "q2", "q3", "q4", "q5", "q6"} \cup DOMAIN AssertionReasonFlags

BaseQuestion ==
  [type |-> "mcq", options |-> <<>>, correctOption |-> Undef, correctAnswerText |-> Undef,
   assertionIsTrue |-> FALSE, reasonIsTrue |-> FALSE, reasonExplainsAssertion |-> FALSE,
   difficulty |-> "medium", explanation |-> Undef, integerAnswer |-> NoNum]

Question(qid) ==
  CASE qid = "q1" -> [type |-> "mcq", options |-> <<"o1", "o2">>, correctOption |-> "o2",
                      explanation |-> "because"] @@ BaseQuestion
    [] qid = "q2" -> [type |-> "short", correctAnswerText |-> "rubric",
                      difficulty |-> "hard"] @@ BaseQuestion
    [] qid = "q4" -> [type |-> "fill", correctAnswerText |-> " Paris "] @@ BaseQuestion
    [] qid = "q5" -> [type |-> "truefalse", correctAnswerText |-> "True"] @@ BaseQuestion
    [] qid = "q6" -> [type |-> "assertionreason", assertionIsTrue |-> TRUE,
                      reasonIsTrue |-> TRUE] @@ BaseQuestion
    [] qid \in DOMAIN AssertionReasonFlags ->
                     [type |-> "assertionreason",
                      assertionIsTrue |-> AssertionReasonFlags[qid][1],
                      reasonIsTrue |-> AssertionReasonFlags[qid][2],
                      reasonExplainsAssertion |-> AssertionReasonFlags[qid][3]] @@ BaseQuestion
    [] OTHER      -> [type |-> "integer", correctAnswerText |-> "7", integerAnswer |-> 7,
                      difficulty |-> "easy", explanation |-> "count"] @@ BaseQuestion

UserProfile(u) ==
  IF u = "u1" THEN [classLevel |-> "c10", batch |-> Undef]
              ELSE [classLevel |-> Undef, batch |-> "b2"]

Section(id, questionIds, shuffleQuestions, shuffleOptions) ==
  [id |-> id, questionIds |-> questionIds,
   shuffleQuestions |-> shuffleQuestions, shuffleOptions |-> shuffleOptions]

SectionsLive == << Section("s1", <<"q1", "q2">>, FALSE, FALSE) >>

SectionsPractice ==
  << Section("s1", <<"q1">>, FALSE, TRUE), Section("s2", <<"q3">>, FALSE, FALSE) >>

SectionsAdaptive == << Section("s1", <<"q1", "q3">>, TRUE, FALSE) >>

SectionsSingle == << Section("s1", <<"q1">>, FALSE, FALSE) >>

SectionsObjective == << Section("s1", <<"q1", "q4", "q2">>, FALSE, FALSE) >>

SectionsCoded == << Section("s1", <<"q5", "q6">>, FALSE, FALSE) >>

ExamFor(mode, mins, sections, users) ==
  [mode |-> mode, totalDurationMins |-> mins, isPublished |-> TRUE, sections |-> sections,
   assignedUsers |-> users, groups |-> {}, classLevel |-> Undef, batch |-> Undef,
   schedule |-> [startAt |-> NoNum, endAt |-> NoNum]]

ExamOf(mode, mins, sections) == ExamFor(mode, mins, sections, {"u1"})

(* The exam documents the runs start from.  totalDurationMins = 0 stands   *)
(* for an exam without a total duration; schedule.startAt = NoNum for an   *)
(* exam without a schedule.                                                *)
ExamConfigs ==
  { ExamOf("live", 1, SectionsLive),
    ExamOf("practice", 1, SectionsPractice),
    ExamOf("adaptive", 0, SectionsAdaptive),
    ExamOf("live", 2, SectionsSingle) }

(* exams every student of the model may start *)
OpenExamConfigs ==
  { ExamFor("live", 1, SectionsLive, Users),
    ExamFor("practice", 0, SectionsPractice, Users) }

(* exams that differ in what startAttempt's access check reads: published *)
(* or not, assigned by user id, by group label, by class level, and with   *)
(* or without a schedule window (the second minute of the run)             *)
AccessExamConfigs ==
  { [ExamFor("practice", 0, SectionsPractice, users) EXCEPT
       !.isPublished = pub, !.groups = groups, !.classLevel = classLevel,
       !.schedule = schedule] :
      pub \in BOOLEAN, users \in {{}, {"u1"}}, groups \in {{}, {"b2"}},
      classLevel \in {Undef, "c10"},
      schedule \in { [startAt |-> NoNum, endAt |-> NoNum],
                     [startAt |-> MsPerMin, endAt |-> MsPerMin] } }

(* ------------------------------ utils/exam ----------------------------- *)
Range(f) == { f[i] : i \in DOMAIN f }

Swap(a, i, j) == [a EXCEPT ![i] = a[j], ![j] = a[i]]

RECURSIVE FisherYates(_, _)
FisherYates(a, i) ==
  IF i <= 1 THEN {a}
  ELSE UNION { FisherYates(Swap(a, i, j), i - 1) : j \in 1..i }

(* every array Math.random can make shuffleArray return *)
shuffleArray(arr) == FisherYates(arr, Len(arr))

RECURSIVE SumSeq(_)
SumSeq(s) == IF s = <<>> THEN 0 ELSE Head(s) + SumSeq(Tail(s))

examQuestionRefs(ex) ==
  UNION { Range(ex.sections[i].questionIds) : i \in DOMAIN ex.sections }

(* Question.find({_id: {$in: qids}}) as the qmap of the callers *)
qmapKeys(ex) == examQuestionRefs(ex) \cap QuestionIds

computeMaxScoreForExam(ex) ==
  SumSeq([i \in DOMAIN ex.sections |->
           SumSeq([k \in DOMAIN ex.sections[i].questionIds |->
                     IF ex.sections[i].questionIds[k] \in QuestionIds THEN 1 ELSE 0])])

(* ------------------------------ responses ------------------------------ *)
(* What a service call answers: err is Ok or the message of the Error it   *)
(* throws, store the Attempt collection it leaves, id the attempt it       *)
(* returns (0 for none).                                                   *)
Result(err, store, id) == [err |-> err, store |-> store, id |-> id]

Ok == "ok"
ErrNotAllowed == "You are not allowed to start this exam"
ErrDuplicate == "E11000 duplicate key"
ErrNotFound == "Attempt not found"
ErrForbidden == "Forbidden"
ErrNotEditable == "Attempt not editable"
ErrAlreadySubmitted == "Attempt already submitted"
ErrAnswerNotFound == "Answer not found"
ErrNotAdaptive == "Attempt is not adaptive"

(* ------------------------------ startAttempt --------------------------- *)
canAccess(ex, u, t) ==
  LET user == UserProfile(u)
      hasSchedule == ex.schedule.startAt # NoNum /\ ex.schedule.endAt # NoNum
      openWindow == hasSchedule /\ ex.schedule.startAt <= t /\ ex.schedule.endAt >= t
      explicitUser == u \in ex.assignedUsers
      groupLabels == {user.classLevel, user.batch} \ {Undef}
      inGroups == ex.groups \cap groupLabels # {}
      classMatch == user.classLevel # Undef /\ ex.classLevel # Undef /\ ex.classLevel = user.classLevel
      batchMatch == user.batch # Undef /\ ex.batch # Undef /\ ex.batch = user.batch
      targeted == explicitUser \/ inGroups \/ classMatch \/ batchMatch
  IN ex.isPublished /\ ( (targeted /\ (~hasSchedule \/ openWindow))
                         \/ (~targeted /\ openWindow) )

(* Attempt.findOne({ examId, userId }): the id of a stored attempt, 0 if none *)
findOne(store, e, u) ==
  IF \E i \in DOMAIN store : store[i].examId = e /\ store[i].userId = u
  THEN CHOOSE i \in DOMAIN store :
         /\ store[i].examId = e /\ store[i].userId = u
         /\ \A k \in DOMAIN store : (store[k].examId = e /\ store[k].userId = u) => i <= k
  ELSE 0

questionOrders(ex) ==
  LET ids == { ex.sections[i].id : i \in DOMAIN ex.sections }
      sec(s) == CHOOSE i \in DOMAIN ex.sections : ex.sections[i].id = s
      choices(s) == IF ex.sections[sec(s)].shuffleQuestions
                    THEN shuffleArray(ex.sections[sec(s)].questionIds)
                    ELSE {ex.sections[sec(s)].questionIds}
  IN { f \in [ids -> UNION { choices(s) : s \in ids }] : \A s \in ids : f[s] \in choices(s) }

optionOrders(ex) ==
  LET shuffled == UNION { Range(ex.sections[i].questionIds) :
                            i \in { k \in DOMAIN ex.sections : ex.sections[k].shuffleOptions } }
      dom == { q \in shuffled \cap QuestionIds : Len(Question(q).options) > 0 }
  IN { f \in [dom -> UNION { shuffleArray(Question(q).options) : q \in dom }] :
         \A q \in dom : f[q] \in shuffleArray(Question(q).options) }

(* adaptiveState is a nested path of the schema: read back, it holds the   *)
(* schema defaults whether or not the exam is adaptive                     *)
newAttempt(ex, u, t, qo, oo) ==
  [examId |-> ExamId, userId |-> u, mode |-> ex.mode, status |-> "in-progress",
   startedAt |-> t, submittedAt |-> NoNum,
   snapshot |-> [sectionOrder |-> [i \in DOMAIN ex.sections |-> ex.sections[i].id],
                 questionOrderBySection |-> qo,
                 optionOrderByQuestion |-> oo,
                 adaptiveState |-> [asked |-> <<>>, currentDifficulty |-> "medium"]],
   answers |-> <<>>, totalScore |-> NoNum, maxScore |-> computeMaxScoreForExam(ex),
   resultPublished |-> FALSE, activityLogs |-> <<>>]

uniqueIndexAllows_NoIndex(store, doc) == TRUE

(* the unique index { examId: 1, userId: 1 } of the Attempt collection *)
uniqueIndexAllows(store, doc) ==
  \A i \in DOMAIN store : ~(store[i].examId = doc.examId /\ store[i].userId = doc.userId)

(* startAttempt up to the answer of Attempt.findOne; Pending stands for   *)
(* the call going on to build the snapshot                                 *)
Pending == "pending"

startAttemptFind_NoLookup(store, ex, u, t) ==
  IF ~canAccess(ex, u, t) THEN Result(ErrNotAllowed, store, 0)
  ELSE Result(Pending, store, 0)

startAttemptFind_Restamp(store, ex, u, t) ==
  IF ~canAccess(ex, u, t) THEN Result(ErrNotAllowed, store, 0)
  ELSE IF findOne(store, ExamId, u) # 0
  THEN Result(Ok, [store EXCEPT ![findOne(store, ExamId, u)].startedAt = t],
              findOne(store, ExamId, u))
  ELSE Result(Pending, store, 0)

startAttemptFind(store, ex, u, t) ==
  IF ~canAccess(ex, u, t) THEN Result(ErrNotAllowed, store, 0)
  ELSE IF findOne(store, ExamId, u) # 0 THEN Result(Ok, store, findOne(store, ExamId, u))
  ELSE Result(Pending, store, 0)

(* startAttempt from the snapshot to the answer of Attempt.create *)
startAttemptCreate(store, ex, u, t, qo, oo) ==
  LET doc == newAttempt(ex, u, t, qo, oo)
  IN IF uniqueIndexAllows(store, doc)
     THEN Result(Ok, Append(store, doc), Len(store) + 1)
     ELSE Result(ErrDuplicate, store, 0)

(* ------------------------------ answers -------------------------------- *)
AnswerFields ==
  {"questionId", "chosenOptionId", "textAnswer", "isMarkedForReview", "timeSpentSec",
   "isCorrect", "scoreAwarded", "rubricScore", "aiFeedback"}

(* what a path of answerSchema holds when it was never set, or was set to  *)
(* undefined: the schema default where there is one.  isCorrect is         *)
(* "true", "false" or Undef.                                               *)
unsetAnswer ==
  [questionId |-> Undef, chosenOptionId |-> Undef, textAnswer |-> Undef,
   isMarkedForReview |-> FALSE, timeSpentSec |-> 0, isCorrect |-> Undef,
   scoreAwarded |-> NoNum, rubricScore |-> NoNum, aiFeedback |-> Undef]

(* An IAnswerItem argument: val holds the keys that carry a value, undef   *)
(* the keys that are present with the value undefined.                     *)
(* { ...attempt.answers[idx], ...answer } cast to answerSchema             *)
mergeAnswer(old, answer) ==
  [k \in AnswerFields |->
     IF k \in DOMAIN answer.val THEN answer.val[k]
     ELSE IF k \in answer.undef THEN unsetAnswer[k]
     ELSE old[k]]

findIndex(answers, qid) ==
  IF \E i \in DOMAIN answers : answers[i].questionId = qid
  THEN CHOOSE i \in DOMAIN answers :
         /\ answers[i].questionId = qid
         /\ \A k \in DOMAIN answers : answers[k].questionId = qid => i <= k
  ELSE 0

upsertAnswer(answers, answer) ==
  LET idx == findIndex(answers, answer.val.questionId)
  IN IF idx > 0 THEN [answers EXCEPT ![idx] = mergeAnswer(answers[idx], answer)]
     ELSE Append(answers, mergeAnswer(unsetAnswer, answer))

(* the IAnswerItem saveAnswerCtrl builds from a request body *)
ctrlAnswer(qid, chosen, text) ==
  [val |-> [k \in {"questionId"} \cup (IF chosen # Undef THEN {"chosenOptionId"} ELSE {})
                                 \cup (IF text # Undef THEN {"textAnswer"} ELSE {}) |->
              CASE k = "questionId" -> qid
                [] k = "chosenOptionId" -> chosen
                [] OTHER -> text],
   undef |-> {"chosenOptionId", "textAnswer", "isMarkedForReview", "timeSpentSec"}]

(* the IAnswerItem markForReview builds *)
markAnswer(qid, marked) ==
  [val |-> [questionId |-> qid, isMarkedForReview |-> marked], undef |-> {}]

(* ------------------------------ grading -------------------------------- *)
(* s.trim().toLowerCase() and s.trim().toUpperCase() on the strings of the model *)
StringTable ==
  { <<" Paris ", "paris", "PARIS">>, <<"paris", "paris", "PARIS">>,
    <<"True", "true", "TRUE">>, <<"true", "true", "TRUE">>, <<"false", "false", "FALSE">>,
    <<"a", "a", "A">>, <<"A", "a", "A">>, <<" b ", "b", "B">>, <<"B", "b", "B">>,
    <<"c", "c", "C">>, <<"C", "c", "C">>, <<"d", "d", "D">>, <<"D", "d", "D">>,
    <<"o1", "o1", "O1">>, <<"undefined", "", "">> }

trimLower(s) == IF \E r \in StringTable : r[1] = s
                THEN (CHOOSE r \in StringTable : r[1] = s)[2] ELSE s

trimUpper(s) == IF \E r \in StringTable : r[1] = s
                THEN (CHOOSE r \in StringTable : r[1] = s)[3] ELSE s

graded(isCorrect) ==
  [graded |-> TRUE, isCorrect |-> isCorrect, score |-> IF isCorrect THEN Point ELSE 0]

gradeObjective_AnyChoice(q, ans) ==
  IF q.type = "mcq" THEN graded(ans.chosenOptionId # Undef)
  ELSE [graded |-> FALSE, isCorrect |-> FALSE, score |-> 0]

gradeObjective_CaseSensitive(q, ans) ==
  IF q.type = "assertionreason"
  THEN LET aT == q.assertionIsTrue
           rT == q.reasonIsTrue
           explains == q.reasonExplainsAssertion
           correct == IF aT /\ rT /\ explains THEN "A"
                      ELSE IF aT /\ rT /\ ~explains THEN "B"
                      ELSE IF aT /\ ~rT THEN "C"
                      ELSE IF ~aT /\ rT THEN "D"
                      ELSE Undef
           given == IF ans.textAnswer # Undef THEN ans.textAnswer
                    ELSE IF ans.chosenOptionId # Undef THEN ans.chosenOptionId
                    ELSE ""
       IN graded(correct # Undef /\ given = correct)
  ELSE [graded |-> FALSE, isCorrect |-> FALSE, score |-> 0]

gradeObjective(q, ans) ==
  CASE q.type = "mcq" ->
         IF q.correctOption = Undef \/ ans.chosenOptionId = Undef THEN graded(FALSE)
         ELSE graded(q.correctOption = ans.chosenOptionId)
    [] q.type = "truefalse" ->
         IF q.correctOption # Undef /\ ans.chosenOptionId # Undef
         THEN graded(q.correctOption = ans.chosenOptionId)
         ELSE LET expected == trimLower(q.correctAnswerText)
                  got == trimLower(ans.textAnswer)
              IN graded(expected # "" /\ got = expected)
    [] q.type = "fill" ->
         LET expected == trimLower(q.correctAnswerText)
             got == trimLower(ans.textAnswer)
         IN graded(expected # "" /\ expected = got)
    [] q.type = "assertionreason" ->
         LET aT == q.assertionIsTrue
             rT == q.reasonIsTrue
             explains == q.reasonExplainsAssertion
             correct == IF aT /\ rT /\ explains THEN "A"
                        ELSE IF aT /\ rT /\ ~explains THEN "B"
                        ELSE IF aT /\ ~rT THEN "C"
                        ELSE IF ~aT /\ rT THEN "D"
                        ELSE Undef
             given == IF ans.textAnswer # Undef THEN trimUpper(ans.textAnswer)
                      ELSE IF ans.chosenOptionId # Undef THEN trimUpper(ans.chosenOptionId)
                      ELSE ""
         IN graded(correct # Undef /\ given = correct)
    [] OTHER -> [graded |-> FALSE, isCorrect |-> FALSE, score |-> 0]

(* Number(r.rubricScore.toFixed(2)), in thousandths *)
toFixed2(x) == ((x + 5) \div 10) * 10

(* The answer of gradeSubjectiveAnswerGroq for one answer: NoNum when the  *)
(* call throws, else the rubricScore it returns.                           *)
AiOutcomes == {NoNum, 666}

gradeAnswer_SkipFailed(ex, ans, ai) ==
  IF ans.questionId \notin qmapKeys(ex) THEN ans
  ELSE LET q == Question(ans.questionId)
           g == gradeObjective(q, ans)
       IN IF g.graded
          THEN [ans EXCEPT !.isCorrect = IF g.isCorrect THEN "true" ELSE "false",
                           !.scoreAwarded = g.score]
          ELSE IF q.type \in {"short", "long"} /\ ai # NoNum
          THEN [ans EXCEPT !.rubricScore = ai, !.aiFeedback = "feedback",
                           !.scoreAwarded = toFixed2(ai)]
          ELSE ans

gradeAnswer_AnyQuestion(ex, ans, ai) ==
  IF ans.questionId \notin QuestionIds THEN ans
  ELSE LET g == gradeObjective(Question(ans.questionId), ans)
       IN IF g.graded
          THEN [ans EXCEPT !.isCorrect = IF g.isCorrect THEN "true" ELSE "false",
                           !.scoreAwarded = g.score]
          ELSE [ans EXCEPT !.rubricScore = 0, !.aiFeedback = "AI grading unavailable",
                           !.scoreAwarded = 0]

(* the body of the grading loop of submitAttempt for one answer; ai is the *)
(* outcome of the grader call the loop makes for it                        *)
gradeAnswer(ex, ans, ai) ==
  IF ans.questionId \notin qmapKeys(ex) THEN ans
  ELSE LET q == Question(ans.questionId)
           g == gradeObjective(q, ans)
       IN IF g.graded
          THEN [ans EXCEPT !.isCorrect = IF g.isCorrect THEN "true" ELSE "false",
                           !.scoreAwarded = g.score]
          ELSE IF q.type \in {"short", "long"}
          THEN IF ai = NoNum
               THEN [ans EXCEPT !.rubricScore = 0, !.aiFeedback = "AI grading unavailable",
                                !.scoreAwarded = 0]
               ELSE [ans EXCEPT !.rubricScore = ai, !.aiFeedback = "feedback",
                                !.scoreAwarded = toFixed2(ai)]
          ELSE ans

(* what the loop adds to total for one answer *)
gradeTotal(ex, ans, ai) ==
  IF ans.questionId \notin qmapKeys(ex) THEN 0
  ELSE LET q == Question(ans.questionId)
           g == gradeObjective(q, ans)
       IN IF g.graded THEN g.score
          ELSE IF q.type \in {"short", "long"} /\ ai # NoNum THEN toFixed2(ai)
          ELSE 0

pastDeadline_AnyMode(ex, att, t) ==
  /\ ex.totalDurationMins # 0
  /\ att.startedAt # NoNum
  /\ t > att.startedAt + ex.totalDurationMins * 60 * 1000

pastDeadline(ex, att, t) ==
  /\ att.mode = "live"
  /\ ex.totalDurationMins # 0
  /\ att.startedAt # NoNum
  /\ t > att.startedAt + ex.totalDurationMins * 60 * 1000

submittedDoc_TrustCaller(ex, att, auto, t, ai) ==
  [att EXCEPT !.answers = [i \in DOMAIN att.answers |-> gradeAnswer(ex, att.answers[i], ai[i])],
              !.totalScore = SumSeq([i \in DOMAIN att.answers |-> gradeTotal(ex, att.answers[i], ai[i])]),
              !.submittedAt = t,
              !.status = IF auto THEN "auto-submitted" ELSE "submitted"]

submittedDoc_AutoUngraded(ex, att, auto, t, ai) ==
  IF auto \/ pastDeadline(ex, att, t)
  THEN [att EXCEPT !.totalScore = 0, !.submittedAt = t, !.status = "auto-submitted"]
  ELSE [att EXCEPT !.answers = [i \in DOMAIN att.answers |-> gradeAnswer(ex, att.answers[i], ai[i])],
                   !.totalScore = SumSeq([i \in DOMAIN att.answers |-> gradeTotal(ex, att.answers[i], ai[i])]),
                   !.submittedAt = t,
                   !.status = "submitted"]

(* submitAttempt after its three checks: the document it saves *)
submittedDoc(ex, att, auto, t, ai) ==
  [att EXCEPT !.answers = [i \in DOMAIN att.answers |-> gradeAnswer(ex, att.answers[i], ai[i])],
              !.totalScore = SumSeq([i \in DOMAIN att.answers |-> gradeTotal(ex, att.answers[i], ai[i])]),
              !.submittedAt = t,
              !.status = IF auto \/ pastDeadline(ex, att, t) THEN "auto-submitted" ELSE "submitted"]

subjectiveIndexes(ex, att) ==
  { i \in DOMAIN att.answers :
      /\ att.answers[i].questionId \in qmapKeys(ex)
      /\ Question(att.answers[i].questionId).type \in {"short", "long"} }

(* the grader outcomes a submit of att can meet, one per subjective answer *)
AiRuns(ex, att) ==
  { [i \in DOMAIN att.answers |-> IF i \in subjectiveIndexes(ex, att) THEN f[i] ELSE NoNum] :
      f \in [subjectiveIndexes(ex, att) -> AiOutcomes] }

submitAttempt_NoStatusCheck(store, ex, a, u, auto, t, ai) ==
  IF a \notin DOMAIN store THEN Result(ErrNotFound, store, 0)
  ELSE IF store[a].userId # u THEN Result(ErrForbidden, store, 0)
  ELSE Result(Ok, [store EXCEPT ![a] = submittedDoc(ex, store[a], auto, t, ai)], a)

submitAttempt(store, ex, a, u, auto, t, ai) ==
  IF a \notin DOMAIN store THEN Result(ErrNotFound, store, 0)
  ELSE IF store[a].userId # u THEN Result(ErrForbidden, store, 0)
  ELSE IF store[a].status \notin {"in-progress", "created"}
  THEN Result(ErrAlreadySubmitted, store, 0)
  ELSE Result(Ok, [store EXCEPT ![a] = submittedDoc(ex, store[a], auto, t, ai)], a)

saveAnswer_NoTimingGuard(store, ex, a, u, answer, t, ai) ==
  IF a \notin DOMAIN store THEN Result(ErrNotFound, store, 0)
  ELSE IF store[a].userId # u THEN Result(ErrForbidden, store, 0)
  ELSE IF store[a].status # "in-progress" THEN Result(ErrNotEditable, store, 0)
  ELSE Result(Ok, [store EXCEPT ![a].answers = upsertAnswer(@, answer)], a)

saveAnswer_GradeOnSave(store, ex, a, u, answer, t, ai) ==
  IF a \notin DOMAIN store THEN Result(ErrNotFound, store, 0)
  ELSE IF store[a].userId # u THEN Result(ErrForbidden, store, 0)
  ELSE IF store[a].status # "in-progress" THEN Result(ErrNotEditable, store, 0)
  ELSE IF pastDeadline(ex, store[a], t) THEN submitAttempt(store, ex, a, u, TRUE, t, ai)
  ELSE LET saved == upsertAnswer(store[a].answers, answer)
       IN Result(Ok, [store EXCEPT ![a].answers =
                        [i \in DOMAIN saved |-> gradeAnswer(ex, saved[i], NoNum)]], a)

saveAnswer(store, ex, a, u, answer, t, ai) ==
  IF a \notin DOMAIN store THEN Result(ErrNotFound, store, 0)
  ELSE IF store[a].userId # u THEN Result(ErrForbidden, store, 0)
  ELSE IF store[a].status # "in-progress" THEN Result(ErrNotEditable, store, 0)
  ELSE IF pastDeadline(ex, store[a], t) THEN submitAttempt(store, ex, a, u, TRUE, t, ai)
  ELSE Result(Ok, [store EXCEPT ![a].answers = upsertAnswer(@, answer)], a)

markForReview(store, ex, a, u, qid, marked, t, ai) ==
  saveAnswer(store, ex, a, u, markAnswer(qid, marked), t, ai)

sumScoreAwarded(answers) ==
  SumSeq([i \in DOMAIN answers |->
            IF answers[i].scoreAwarded # NoNum THEN answers[i].scoreAwarded ELSE 0])

(* ------------------------------ teacher side --------------------------- *)
(* findByIdAndUpdate answers null, without an error, when the id is unknown *)
publishResult_Retotal(store, a, publish) ==
  IF a \notin DOMAIN store THEN Result(Ok, store, 0)
  ELSE Result(Ok, [store EXCEPT ![a].resultPublished = publish, ![a].status = "graded",
                                ![a].totalScore = sumScoreAwarded(store[a].answers)], a)

publishResult(store, a, publish) ==
  IF a \notin DOMAIN store THEN Result(Ok, store, 0)
  ELSE Result(Ok, [store EXCEPT ![a].resultPublished = publish, ![a].status = "graded"], a)

adjustAnswerScore(store, a, answerId, score, feedback) ==
  IF a \notin DOMAIN store THEN Result(ErrNotFound, store, 0)
  ELSE IF findIndex(store[a].answers, answerId) = 0 THEN Result(ErrAnswerNotFound, store, 0)
  ELSE LET idx == findIndex(store[a].answers, answerId)
           adjusted == [store[a].answers EXCEPT
                          ![idx].scoreAwarded = score,
                          ![idx].aiFeedback = IF feedback # Undef THEN feedback ELSE @]
       IN Result(Ok, [store EXCEPT ![a].answers = adjusted,
                                   ![a].totalScore = sumScoreAwarded(adjusted)], a)

(* ------------------------------ activity log --------------------------- *)
LogTypes == {"focus-lost", "fullscreen-exit", "suspicious", "navigation"}

logActivity_NoOwnerCheck(store, a, u, type, t) ==
  IF a \notin DOMAIN store THEN Result(ErrNotFound, store, 0)
  ELSE Result(Ok, [store EXCEPT ![a].activityLogs = Append(@, [at |-> t, type |-> type])], a)

logActivity(store, a, u, type, t) ==
  IF a \notin DOMAIN store THEN Result(ErrNotFound, store, 0)
  ELSE IF store[a].userId # u THEN Result(ErrForbidden, store, 0)
  ELSE Result(Ok, [store EXCEPT ![a].activityLogs = Append(@, [at |-> t, type |-> type])], a)

(* ------------------------------ adaptive selector ---------------------- *)
DifficultyOrder == <<"easy", "medium", "hard">>

indexOf(d) == CHOOSE i \in 1..3 : DifficultyOrder[i] = d

recorded(ans) == (ans.scoreAwarded # NoNum /\ ans.scoreAwarded # 0) \/ ans.isCorrect # Undef

(* [...answers].reverse().find(recorded): its index, 0 if there is none *)
lastRecorded(answers) ==
  IF \E i \in DOMAIN answers : recorded(answers[i])
  THEN CHOOSE i \in DOMAIN answers :
         recorded(answers[i]) /\ \A k \in DOMAIN answers : recorded(answers[k]) => k <= i
  ELSE 0

nextDifficulty(state, answers) ==
  LET li == lastRecorded(answers)
  IN IF li = 0 THEN state.currentDifficulty
     ELSE LET last == answers[li]
              correct == last.isCorrect = "true" \/ (last.rubricScore # NoNum /\ last.rubricScore > 600)
              idx == indexOf(state.currentDifficulty)
          IN DifficultyOrder[IF correct THEN (IF idx + 1 > 3 THEN 3 ELSE idx + 1)
                                        ELSE (IF idx - 1 < 1 THEN 1 ELSE idx - 1)]

nextPool_IgnoreAsked(ex, att) ==
  LET state == att.snapshot.adaptiveState
      candidates == { q \in qmapKeys(ex) : Question(q).difficulty = nextDifficulty(state, att.answers) }
  IN IF candidates # {} THEN candidates ELSE qmapKeys(ex)

nextPool_NoFallback(ex, att) ==
  LET state == att.snapshot.adaptiveState
      unasked == qmapKeys(ex) \ Range(state.asked)
  IN { q \in unasked : Question(q).difficulty = nextDifficulty(state, att.answers) }

(* the questions pick() can return for the attempt; empty when the pool is exhausted *)
nextPool(ex, att) ==
  LET state == att.snapshot.adaptiveState
      unasked == qmapKeys(ex) \ Range(state.asked)
      candidates == { q \in unasked : Question(q).difficulty = nextDifficulty(state, att.answers) }
  IN IF candidates # {} THEN candidates ELSE unasked

Done == "done"

nextAdaptiveQuestion_KeepAsked(store, ex, a, u, chosen) ==
  IF a \notin DOMAIN store THEN Result(ErrNotFound, store, 0) @@ [q |-> Undef]
  ELSE IF store[a].userId # u THEN Result(ErrForbidden, store, 0) @@ [q |-> Undef]
  ELSE IF store[a].mode # "adaptive" /\ ex.mode # "adaptive"
  THEN Result(ErrNotAdaptive, store, 0) @@ [q |-> Undef]
  ELSE IF nextPool(ex, store[a]) = {} THEN Result(Ok, store, a) @@ [q |-> Done]
  ELSE Result(Ok, [store EXCEPT ![a].snapshot.adaptiveState.currentDifficulty =
                     nextDifficulty(store[a].snapshot.adaptiveState, store[a].answers)], a)
       @@ [q |-> chosen]

(* chosen is the question pick() returns; the answer's q is the questionId *)
(* returned, or Done                                                       *)
nextAdaptiveQuestion(store, ex, a, u, chosen) ==
  IF a \notin DOMAIN store THEN Result(ErrNotFound, store, 0) @@ [q |-> Undef]
  ELSE IF store[a].userId # u THEN Result(ErrForbidden, store, 0) @@ [q |-> Undef]
  ELSE IF store[a].mode # "adaptive" /\ ex.mode # "adaptive"
  THEN Result(ErrNotAdaptive, store, 0) @@ [q |-> Undef]
  ELSE IF nextPool(ex, store[a]) = {} THEN Result(Ok, store, a) @@ [q |-> Done]
  ELSE LET state == store[a].snapshot.adaptiveState
       IN Result(Ok, [store EXCEPT ![a].snapshot.adaptiveState =
                        [asked |-> Append(state.asked, chosen),
                         currentDifficulty |-> nextDifficulty(state, store[a].answers)]], a)
          @@ [q |-> chosen]

(* ------------------------------ student view --------------------------- *)
(* sanitizeQuestion builds a new object of _id, text, type, options, tags  *)
(* and an undefined explanation; of each option it keeps _id and text.     *)
(* An option of the model is its _id, and the isCorrect flags of the       *)
(* options are the question's correctOption.                               *)
sanitizeQuestion_Leaky(q) ==
  [type |-> q.type, options |-> q.options, explanation |-> Undef,
   correctAnswerText |-> q.correctAnswerText]

sanitizeQuestion(q) == [type |-> q.type, options |-> q.options, explanation |-> Undef]

(* the options in the stored order, when one of the same length is stored *)
reorderOptions(options, att, qid) ==
  LET stored == qid \in DOMAIN att.snapshot.optionOrderByQuestion
  IN IF stored /\ Len(att.snapshot.optionOrderByQuestion[qid]) = Len(options)
     THEN LET optOrder == att.snapshot.optionOrderByQuestion[qid]
          IN [i \in DOMAIN optOrder |->
                IF optOrder[i] \in Range(options) THEN optOrder[i] ELSE Undef]
     ELSE options

viewOptions_CatalogOrder(att, qid) == sanitizeQuestion(Question(qid)).options

viewOptions(att, qid) == reorderOptions(sanitizeQuestion(Question(qid)).options, att, qid)

(* the entry of questionDict built from the catalog's question q with id qid *)
questionView(q, qid, att) ==
  LET sanitized == sanitizeQuestion(q)
      answered == findIndex(att.answers, qid) # 0
  IN [sanitized EXCEPT
        !.explanation = IF att.mode = "practice" /\ answered /\ q.explanation # Undef
                        THEN q.explanation ELSE @,
        !.options = reorderOptions(@, att, qid)]

attemptView(ex, att) ==
  [attempt |-> att,
   sections |-> [i \in DOMAIN ex.sections |->
                   [id |-> ex.sections[i].id,
                    questionIds |-> IF ex.sections[i].id \in DOMAIN att.snapshot.questionOrderBySection
                                    THEN att.snapshot.questionOrderBySection[ex.sections[i].id]
                                    ELSE <<>>]],
   questions |-> [q \in qmapKeys(ex) |-> questionView(Question(q), q, att)],
   options |-> [q \in qmapKeys(ex) |-> viewOptions(att, q)],
   explained |-> { q \in qmapKeys(ex) : /\ att.mode = "practice"
                                        /\ findIndex(att.answers, q) # 0
                                        /\ Question(q).explanation # Undef }]

NoView ==
  [attempt |-> Undef, sections |-> <<>>, questions |-> [q \in {} |-> Undef],
   options |-> [q \in {} |-> <<>>], explained |-> {}]

getAttemptView(store, ex, a, u) ==
  IF a \notin DOMAIN store THEN Result(ErrNotFound, store, 0) @@ [view |-> NoView]
  ELSE IF store[a].userId # u THEN Result(ErrForbidden, store, 0) @@ [view |-> NoView]
  ELSE Result(Ok, store, a) @@ [view |-> attemptView(ex, store[a])]

(* ------------------------------ practice explanation ------------------ *)
ErrPracticeOnly == "Explanations only in practice mode"
ErrAnswerFirst == "Answer the question first"

(* getPracticeExplanationCtrl: explanation is Undef for a refusal and for  *)
(* the answer { explanation: null }                                        *)
getPracticeExplanation(store, a, u, qid) ==
  IF a \notin DOMAIN store THEN Result(ErrNotFound, store, 0) @@ [explanation |-> Undef]
  ELSE IF store[a].userId # u THEN Result(ErrForbidden, store, 0) @@ [explanation |-> Undef]
  ELSE IF store[a].mode # "practice"
  THEN Result(ErrPracticeOnly, store, 0) @@ [explanation |-> Undef]
  ELSE IF findIndex(store[a].answers, qid) = 0
  THEN Result(ErrAnswerFirst, store, 0) @@ [explanation |-> Undef]
  ELSE Result(Ok, store, a)
         @@ [explanation |-> IF qid \in QuestionIds THEN Question(qid).explanation ELSE Undef]

(* ------------------------------ attempt list -------------------------- *)
(* Attempt.find(criteria).sort({ submittedAt: -1, createdAt: -1 }) mapped   *)
(* to the summary entries; an unset submittedAt sorts last                  *)
listAttemptsForUser(store, u, published) ==
  LET ids == SelectSeq([i \in 1..Len(store) |-> i],
                       LAMBDA i : store[i].userId = u /\ (published => store[i].resultPublished))
      sorted == SortSeq(ids, LAMBDA x, y : \/ store[x].submittedAt > store[y].submittedAt
                                           \/ /\ store[x].submittedAt = store[y].submittedAt
                                              /\ x > y)
  IN [k \in DOMAIN sorted |->
        [id |-> sorted[k], examId |-> store[sorted[k]].examId,
         submittedAt |-> store[sorted[k]].submittedAt,
         totalScore |-> store[sorted[k]].totalScore, maxScore |-> store[sorted[k]].maxScore,
         status |-> store[sorted[k]].status,
         resultPublished |-> store[sorted[k]].resultPublished]]

(* ------------------------------ requests ------------------------------- *)
(* the ids a request can carry: those of the stored attempts and one more *)
AttemptIds == 1..(Len(attempts) + 1)

AnswerBodies ==
  { b \in { ctrlAnswer("q1", "o1", Undef), ctrlAnswer("q1", "o2", Undef),
            ctrlAnswer("q2", Undef, "essay"), ctrlAnswer("q3", Undef, "7"),
            ctrlAnswer("q4", Undef, "paris"), ctrlAnswer("q4", Undef, "rome"),
            ctrlAnswer("q5", Undef, "true"), ctrlAnswer("q5", "o1", "false"),
            ctrlAnswer("q6", Undef, " b "), ctrlAnswer("q6", Undef, "a") } :
      b.val.questionId \in examQuestionRefs(exam) }

MarkInputs == { <<"q1", TRUE>>, <<"q1", FALSE>> }

AdjustInputs == { <<"q2", 500, "regraded">>, <<"q3", 500, "regraded">> }

LogInputs == {"focus-lost"}

(* the question ids explanations are asked for *)
ExplainInputs == {"q1", "q2", "q3", "q4", "q5", "q6"}

(* A call that is refused before it reads its body is made with one body. *)
owns(a, u) == a \in DOMAIN attempts /\ attempts[a].userId = u

BodiesOf(a, u) == IF owns(a, u) THEN AnswerBodies ELSE {ctrlAnswer("q1", "o1", Undef)}

MarksOf(a, u) == IF owns(a, u) THEN MarkInputs ELSE {<<"q1", TRUE>>}

AutosOf(a, u) == IF owns(a, u) THEN BOOLEAN ELSE {FALSE}

AdjustsOf(a) == IF a \in DOMAIN attempts THEN AdjustInputs ELSE {<<"q2", 500, "regraded">>}

(* ------------------------------ controllers ---------------------------- *)
startAttemptCtrl(u) ==
  /\ startAttemptFind(attempts, exam, u, now).err = Pending
  /\ starting[u] < starts
  /\ starting' = [starting EXCEPT ![u] = @ + 1]
  /\ UNCHANGED <<exam, attempts, now, starts, inflight>>

startAttemptDone(u) ==
  /\ starting[u] > 0
  /\ starting' = [starting EXCEPT ![u] = @ - 1]
  /\ \E qo \in questionOrders(exam), oo \in optionOrders(exam) :
       attempts' = startAttemptCreate(attempts, exam, u, now, qo, oo).store
  /\ UNCHANGED <<exam, now, starts, inflight>>

(* a start that ends at the findOne: refused, or answered with the stored attempt *)
startAttemptAgain(u) ==
  /\ startAttemptFind(attempts, exam, u, now).err # Pending
  /\ attempts' = startAttemptFind(attempts, exam, u, now).store
  /\ UNCHANGED <<exam, now, starting, starts, inflight>>

(* answers the list; writes nothing *)
listMyAttemptsCtrl(u, published) ==
  \E list \in {listAttemptsForUser(attempts, u, published)} : UNCHANGED vars

getPracticeExplanationCtrl(a, u, qid) ==
  /\ attempts' = getPracticeExplanation(attempts, a, u, qid).store
  /\ UNCHANGED <<exam, now, starting, starts, inflight>>

getAttemptCtrl(a, u) ==
  /\ attempts' = getAttemptView(attempts, exam, a, u).store
  /\ UNCHANGED <<exam, now, starting, starts, inflight>>

saveAnswerCtrl(a, u, answer) ==
  /\ \E ai \in (IF a \in DOMAIN attempts THEN AiRuns(exam, attempts[a]) ELSE {<<>>}) :
       attempts' = saveAnswer(attempts, exam, a, u, answer, now, ai).store
  /\ UNCHANGED <<exam, now, starting, starts, inflight>>

markForReviewCtrl(a, u, qid, marked) ==
  /\ \E ai \in (IF a \in DOMAIN attempts THEN AiRuns(exam, attempts[a]) ELSE {<<>>}) :
       attempts' = markForReview(attempts, exam, a, u, qid, marked, now, ai).store
  /\ UNCHANGED <<exam, now, starting, starts, inflight>>

submitAttemptCtrl(a, u, auto) ==
  /\ \E ai \in (IF a \in DOMAIN attempts THEN AiRuns(exam, attempts[a]) ELSE {<<>>}) :
       attempts' = submitAttempt(attempts, exam, a, u, auto, now, ai).store
  /\ UNCHANGED <<exam, now, starting, starts, inflight>>

publishResultCtrl(a, publish) ==
  /\ attempts' = publishResult(attempts, a, publish).store
  /\ UNCHANGED <<exam, now, starting, starts, inflight>>

adjustAnswerScoreCtrl(a, answerId, score, feedback) ==
  /\ attempts' = adjustAnswerScore(attempts, a, answerId, score, feedback).store
  /\ UNCHANGED <<exam, now, starting, starts, inflight>>

logActivityCtrl(a, u, type) ==
  /\ a \in DOMAIN attempts => Len(attempts[a].activityLogs) < MaxLogs
  /\ attempts' = logActivity(attempts, a, u, type, now).store
  /\ UNCHANGED <<exam, now, starting, starts, inflight>>

nextAdaptiveQuestionCtrl(a, u) ==
  /\ \E chosen \in (IF a \in DOMAIN attempts /\ nextPool(exam, attempts[a]) # {}
                    THEN nextPool(exam, attempts[a]) ELSE {Undef}) :
       attempts' = nextAdaptiveQuestion(attempts, exam, a, u, chosen).store
  /\ UNCHANGED <<exam, now, starting, starts, inflight>>

(* ------------------------------ the clock ------------------------------ *)
Tick ==
  /\ now < MaxTicks * MsPerMin
  /\ now' = now + MsPerMin
  /\ UNCHANGED <<exam, attempts, starting, starts, inflight>>

Init ==
  /\ exam \in ExamConfigs
  /\ attempts = <<>>
  /\ now = 0
  /\ starting = [u \in Users |-> 0]
  /\ starts = 1
  /\ inflight = <<>>

Next ==
  \/ \E u \in Users : startAttemptCtrl(u)
  \/ \E u \in Users : startAttemptDone(u)
  \/ \E u \in Users : startAttemptAgain(u)
  \/ \E u \in Users, published \in BOOLEAN : listMyAttemptsCtrl(u, published)
  \/ \E a \in AttemptIds, u \in Users : getAttemptCtrl(a, u)
  \/ \E a \in AttemptIds, u \in Users, qid \in ExplainInputs : getPracticeExplanationCtrl(a, u, qid)
  \/ \E a \in AttemptIds, u \in Users : \E answer \in BodiesOf(a, u) : saveAnswerCtrl(a, u, answer)
  \/ \E a \in AttemptIds, u \in Users : \E m \in MarksOf(a, u) : markForReviewCtrl(a, u, m[1], m[2])
  \/ \E a \in AttemptIds, u \in Users : \E auto \in AutosOf(a, u) : submitAttemptCtrl(a, u, auto)
  \/ \E a \in AttemptIds, u \in Users : nextAdaptiveQuestionCtrl(a, u)
  \/ \E a \in AttemptIds, u \in Users, type \in LogInputs : logActivityCtrl(a, u, type)
  \/ \E a \in AttemptIds, publish \in BOOLEAN : publishResultCtrl(a, publish)
  \/ \E a \in AttemptIds : \E adj \in AdjustsOf(a) : adjustAnswerScoreCtrl(a, adj[1], adj[2], adj[3])
  \/ Tick

Spec == Init /\ [][Next]_vars

(* Overlapping start calls: each student may have up to MaxStarting start  *)
(* calls between their findOne and their create.                           *)
InitRace ==
  /\ exam \in OpenExamConfigs
  /\ attempts = <<>>
  /\ now = 0
  /\ starting = [u \in Users |-> 0]
  /\ starts = MaxStarting
  /\ inflight = <<>>

NextRace ==
  \/ \E u \in Users : startAttemptCtrl(u)
  \/ \E u \in Users : startAttemptDone(u)
  \/ \E u \in Users : startAttemptAgain(u)
  \/ \E a \in AttemptIds, u \in Users : \E auto \in AutosOf(a, u) : submitAttemptCtrl(a, u, auto)
  \/ Tick

SpecRace == InitRace /\ [][NextRace]_vars

(* ------------------------------ start under every access setting ------- *)
InitAccess ==
  /\ exam \in AccessExamConfigs
  /\ attempts = <<>>
  /\ now = 0
  /\ starting = [u \in Users |-> 0]
  /\ starts = 1
  /\ inflight = <<>>

SpecAccess == InitAccess /\ [][NextRace]_vars

(* ------------------------------ C1 ------------------------------------- *)
(* C1: in every reachable state, also while start calls of one student     *)
(* overlap, the store holds at most one Attempt per (examId, userId).      *)
C1_OneAttemptPerPair ==
  \A i \in DOMAIN attempts, j \in DOMAIN attempts :
    (attempts[i].examId = attempts[j].examId /\ attempts[i].userId = attempts[j].userId) => i = j

(* an attempt is stored while another start of the same student, which     *)
(* found none, is about to create, and the other student holds one too     *)
C1_Witness ==
  /\ \E u \in Users : findOne(attempts, ExamId, u) # 0 /\ starting[u] > 0
  /\ \A u \in Users : findOne(attempts, ExamId, u) # 0

(* ------------------------------ C2 ------------------------------------- *)
(* C2: when an attempt of the student exists, an authorized start answers  *)
(* its id and leaves the store as it was; and whatever step is taken next, *)
(* the student's attempt keeps that id, so a later start answers it again. *)
C2_StartIdempotent ==
  [][\A u \in Users :
       LET id == findOne(attempts, ExamId, u)
           r == startAttemptFind(attempts, exam, u, now)
       IN (id # 0 /\ canAccess(exam, u, now)) =>
            /\ r.err = Ok /\ r.id = id /\ r.store = attempts
            /\ findOne(attempts', ExamId, u) = id]_vars

(* a repeated start on an attempt that was answered and submitted in between *)
C2_Witness ==
  \E a \in DOMAIN attempts :
    /\ attempts[a].answers # <<>> /\ attempts[a].status = "submitted"
    /\ startAttemptFind(attempts, exam, attempts[a].userId, now).id = a

(* ------------------------------ C3 ------------------------------------- *)
(* the student's part of the answers: what saveAnswer and markForReview write *)
edits(answers) ==
  [i \in DOMAIN answers |->
     [questionId |-> answers[i].questionId, chosenOptionId |-> answers[i].chosenOptionId,
      textAnswer |-> answers[i].textAnswer, isMarkedForReview |-> answers[i].isMarkedForReview]]

(* C3: on an in-progress live attempt whose exam has a total duration T, a *)
(* saveAnswer or markForReview of the owner after startedAt + T answers    *)
(* the attempt, auto-submitted, with the items of answers as they were.    *)
C3_LateSaveAutoSubmits ==
  \A a \in DOMAIN attempts :
    LET att == attempts[a]
    IN (/\ att.status = "in-progress" /\ att.mode = "live" /\ exam.totalDurationMins > 0
        /\ now > att.startedAt + exam.totalDurationMins * MsPerMin) =>
         \A ai \in AiRuns(exam, att) :
           /\ \A answer \in AnswerBodies :
                LET r == saveAnswer(attempts, exam, a, att.userId, answer, now, ai)
                IN /\ r.err = Ok /\ r.id = a
                   /\ r.store[a].status = "auto-submitted"
                   /\ edits(r.store[a].answers) = edits(att.answers)
           /\ \A m \in MarkInputs :
                LET r == markForReview(attempts, exam, a, att.userId, m[1], m[2], now, ai)
                IN /\ r.err = Ok /\ r.id = a
                   /\ r.store[a].status = "auto-submitted"
                   /\ edits(r.store[a].answers) = edits(att.answers)

(* a late save that posts an answer to a question not yet answered *)
C3_Witness ==
  \E a \in DOMAIN attempts : \E answer \in AnswerBodies, ai \in AiRuns(exam, attempts[a]) :
    /\ attempts[a].status = "in-progress" /\ attempts[a].mode = "live"
    /\ exam.totalDurationMins > 0
    /\ now > attempts[a].startedAt + exam.totalDurationMins * MsPerMin
    /\ attempts[a].answers # <<>>
    /\ findIndex(attempts[a].answers, answer.val.questionId) = 0
    /\ saveAnswer(attempts, exam, a, attempts[a].userId, answer, now, ai).store[a].status
         = "auto-submitted"

(* ------------------------------ C4 ------------------------------------- *)
(* C4: a submit of the owner on an in-progress live attempt with a total   *)
(* duration T records auto-submitted when it comes after startedAt + T or  *)
(* carries auto, else submitted; either way the saved answers are kept and *)
(* graded: an mcq answer by its option, a short or long one by the grader. *)
C4_SubmitStatus ==
  \A a \in DOMAIN attempts :
    LET att == attempts[a]
        late == now > att.startedAt + exam.totalDurationMins * MsPerMin
    IN (att.status = "in-progress" /\ att.mode = "live" /\ exam.totalDurationMins > 0) =>
         \A auto \in BOOLEAN, ai \in AiRuns(exam, att) :
           LET r == submitAttempt(attempts, exam, a, att.userId, auto, now, ai)
               doc == r.store[a]
           IN /\ r.err = Ok /\ r.id = a
              /\ doc.status = IF late \/ auto THEN "auto-submitted" ELSE "submitted"
              /\ doc.submittedAt = now
              /\ edits(doc.answers) = edits(att.answers)
              /\ \A i \in DOMAIN doc.answers :
                   LET ans == doc.answers[i]
                       q == Question(ans.questionId)
                   IN ans.questionId \in examQuestionRefs(exam) =>
                        /\ q.type = "mcq" =>
                             /\ ans.isCorrect = (IF ans.chosenOptionId = q.correctOption
                                                 THEN "true" ELSE "false")
                             /\ ans.scoreAwarded = (IF ans.chosenOptionId = q.correctOption
                                                    THEN Point ELSE 0)
                        /\ q.type \in {"short", "long"} =>
                             /\ ans.scoreAwarded # NoNum /\ ans.rubricScore # NoNum

(* a late submit that asks for auto = false and has a correct answer to grade *)
C4_Witness ==
  \E a \in DOMAIN attempts : \E ai \in AiRuns(exam, attempts[a]) :
    LET att == attempts[a]
        doc == submitAttempt(attempts, exam, a, att.userId, FALSE, now, ai).store[a]
    IN /\ att.status = "in-progress" /\ att.mode = "live" /\ exam.totalDurationMins > 0
       /\ now > att.startedAt + exam.totalDurationMins * MsPerMin
       /\ doc.status = "auto-submitted"
       /\ \E i \in DOMAIN doc.answers : doc.answers[i].scoreAwarded = Point

(* ------------------------------ C5 ------------------------------------- *)
(* C5: in every reachable state a submitted or auto-submitted attempt has  *)
(* submittedAt and totalScore set, and totalScore is the sum of            *)
(* scoreAwarded over all its answers, an unset scoreAwarded counting as 0. *)
C5_TotalIsSumOfScores ==
  \A a \in DOMAIN attempts :
    attempts[a].status \in {"submitted", "auto-submitted"} =>
      /\ attempts[a].submittedAt # NoNum
      /\ attempts[a].totalScore # NoNum
      /\ attempts[a].totalScore = sumScoreAwarded(attempts[a].answers)

(* ------------------------------ C6 ------------------------------------- *)
(* C6: an attempt is created in-progress, and a step that changes its      *)
(* status takes it from in-progress to submitted or auto-submitted, or     *)
(* from submitted or auto-submitted to graded: never back to in-progress,  *)
(* and to graded from nowhere else.                                        *)
C6_StatusLifecycle ==
  [][/\ \A a \in DOMAIN attempts' :
          a \notin DOMAIN attempts => attempts'[a].status = "in-progress"
     /\ \A a \in DOMAIN attempts :
          LET old == attempts[a].status
              new == attempts'[a].status
          IN old # new =>
               \/ old = "in-progress" /\ new \in {"submitted", "auto-submitted"}
               \/ old \in {"submitted", "auto-submitted"} /\ new = "graded"]_vars

(* ------------------------------ C7 ------------------------------------- *)
terminal(att) == att.status \in {"submitted", "auto-submitted", "graded"}

(* C7: on a submitted, auto-submitted or graded attempt the owner's        *)
(* saveAnswer and markForReview fail with NotEditable and submit fails     *)
(* with AlreadySubmitted, each leaving the store as it was; a submit       *)
(* succeeds only on an in-progress attempt and ends it, and no step takes  *)
(* an attempt back to in-progress or restamps submittedAt, so at most one  *)
(* submit succeeds per attempt.                                            *)
C7_TerminalRefusals ==
  /\ [](\A a \in DOMAIN attempts :
          LET att == attempts[a]
          IN \A ai \in AiRuns(exam, att) :
               /\ terminal(att) =>
                    /\ \A answer \in AnswerBodies :
                         LET r == saveAnswer(attempts, exam, a, att.userId, answer, now, ai)
                         IN r.err = ErrNotEditable /\ r.store = attempts
                    /\ \A m \in MarkInputs :
                         LET r == markForReview(attempts, exam, a, att.userId, m[1], m[2], now, ai)
                         IN r.err = ErrNotEditable /\ r.store = attempts
                    /\ \A auto \in BOOLEAN :
                         LET r == submitAttempt(attempts, exam, a, att.userId, auto, now, ai)
                         IN r.err = ErrAlreadySubmitted /\ r.store = attempts
               /\ \A auto \in BOOLEAN :
                    LET r == submitAttempt(attempts, exam, a, att.userId, auto, now, ai)
                    IN r.err = Ok => att.status = "in-progress" /\ terminal(r.store[a]))
  /\ [][\A a \in DOMAIN attempts :
          /\ terminal(attempts[a]) => terminal(attempts'[a])
          /\ attempts[a].submittedAt # NoNum =>
               attempts'[a].submittedAt = attempts[a].submittedAt]_vars

(* a submitted attempt with answers, on which save and submit are refused *)
C7_Witness ==
  \E a \in DOMAIN attempts : \E ai \in AiRuns(exam, attempts[a]) :
    /\ attempts[a].status = "submitted" /\ attempts[a].answers # <<>>
    /\ saveAnswer(attempts, exam, a, attempts[a].userId,
                  ctrlAnswer("q1", "o1", Undef), now, ai).err = ErrNotEditable
    /\ submitAttempt(attempts, exam, a, attempts[a].userId, FALSE, now, ai).err
         = ErrAlreadySubmitted

(* ------------------------------ C8 ------------------------------------- *)
(* C8: on a submitted or auto-submitted attempt no call of its student     *)
(* (view, saveAnswer, markForReview, submit, next, logActivity) changes    *)
(* any field of the attempt.                                               *)
C8_TerminalForStudent ==
  \A a \in DOMAIN attempts :
    LET att == attempts[a]
        u == att.userId
    IN att.status \in {"submitted", "auto-submitted"} =>
         /\ getAttemptView(attempts, exam, a, u).store = attempts
         /\ \A ai \in AiRuns(exam, att) :
              /\ \A answer \in AnswerBodies :
                   saveAnswer(attempts, exam, a, u, answer, now, ai).store = attempts
              /\ \A m \in MarkInputs :
                   markForReview(attempts, exam, a, u, m[1], m[2], now, ai).store = attempts
              /\ \A auto \in BOOLEAN :
                   submitAttempt(attempts, exam, a, u, auto, now, ai).store = attempts
         /\ \A chosen \in nextPool(exam, att) \cup {Undef} :
              nextAdaptiveQuestion(attempts, exam, a, u, chosen).store = attempts
         /\ \A type \in LogTypes :
              logActivity(attempts, a, u, type, now).store = attempts

(* ------------------------------ C9 ------------------------------------- *)
(* what creation fixes: everything of the snapshot but adaptiveState, and  *)
(* the identity, mode, maxScore and start time of the attempt              *)
frozen(att) ==
  [examId |-> att.examId, userId |-> att.userId, mode |-> att.mode,
   maxScore |-> att.maxScore, startedAt |-> att.startedAt,
   sectionOrder |-> att.snapshot.sectionOrder,
   questionOrderBySection |-> att.snapshot.questionOrderBySection,
   optionOrderByQuestion |-> att.snapshot.optionOrderByQuestion]

(* C9: no step removes an attempt or changes its examId, userId, mode,     *)
(* maxScore, startedAt, snapshot.sectionOrder, questionOrderBySection or   *)
(* optionOrderByQuestion; a repeated start leaves startedAt, and with it   *)
(* the live deadline, where creation put it.                               *)
C9_CreationFrame ==
  [][\A a \in DOMAIN attempts :
       /\ a \in DOMAIN attempts'
       /\ frozen(attempts'[a]) = frozen(attempts[a])]_vars

(* an adaptive attempt that was asked a question, later than its start, and graded *)
C9_Witness ==
  \E a \in DOMAIN attempts :
    /\ attempts[a].snapshot.adaptiveState.asked # <<>>
    /\ attempts[a].status = "graded"
    /\ attempts[a].answers # <<>>
    /\ now > attempts[a].startedAt

(* ------------------------------ C10 ------------------------------------ *)
(* C10: the view of an attempt lists for each section of the exam the      *)
(* stored questionOrderBySection of that section, and gives each question  *)
(* with a stored option order its options in that order; the question and  *)
(* option order of the view is the same before and after every step.       *)
C10_ViewFollowsSnapshot ==
  /\ [](\A a \in DOMAIN attempts :
          LET att == attempts[a]
              r == getAttemptView(attempts, exam, a, att.userId)
          IN /\ r.err = Ok
             /\ \A i \in DOMAIN exam.sections :
                  r.view.sections[i].questionIds
                    = att.snapshot.questionOrderBySection[exam.sections[i].id]
             /\ \A q \in DOMAIN att.snapshot.optionOrderByQuestion :
                  r.view.options[q] = att.snapshot.optionOrderByQuestion[q])
  /\ [][\A a \in DOMAIN attempts :
          LET before == getAttemptView(attempts, exam, a, attempts[a].userId).view
              after == getAttemptView(attempts', exam', a, attempts[a].userId).view
          IN after.sections = before.sections /\ after.options = before.options]_vars

(* an answered attempt whose stored option order differs from the catalog's *)
C10_Witness ==
  \E a \in DOMAIN attempts :
    /\ "q1" \in DOMAIN attempts[a].snapshot.optionOrderByQuestion
    /\ attempts[a].snapshot.optionOrderByQuestion["q1"] # Question("q1").options
    /\ attempts[a].answers # <<>>
    /\ getAttemptView(attempts, exam, a, attempts[a].userId).view.options["q1"]
         = attempts[a].snapshot.optionOrderByQuestion["q1"]

(* ------------------------------ C11 ------------------------------------ *)
(* the catalog's correctness data of a question *)
CorrectnessFields ==
  {"correctOption", "correctAnswerText", "integerAnswer",
   "assertionIsTrue", "reasonIsTrue", "reasonExplainsAssertion"}

(* the questions that differ from q in correctness data only *)
CorrectnessVariants(q) ==
  { [q EXCEPT !.correctOption = co, !.correctAnswerText = ct, !.integerAnswer = n,
              !.assertionIsTrue = b, !.reasonIsTrue = b, !.reasonExplainsAssertion = ~b] :
      co \in Range(q.options) \cup {Undef}, ct \in {Undef, "rubric", "7"},
      n \in {NoNum, 7}, b \in BOOLEAN }

(* C11: in every reachable state the questions of the student view carry   *)
(* none of the catalog's correctness fields, and the view of a question is *)
(* the same for every catalog entry that differs in correctness data only. *)
C11_ViewHidesCorrectness ==
  \A a \in DOMAIN attempts :
    LET att == attempts[a]
        view == getAttemptView(attempts, exam, a, att.userId).view
    IN \A qid \in DOMAIN view.questions :
         /\ DOMAIN view.questions[qid] \cap CorrectnessFields = {}
         /\ \A q2 \in CorrectnessVariants(Question(qid)) :
              questionView(q2, qid, att) = view.questions[qid]

(* an in-progress practice attempt whose view shows an answered mcq question *)
C11_Witness ==
  \E a \in DOMAIN attempts :
    LET view == getAttemptView(attempts, exam, a, attempts[a].userId).view
    IN /\ attempts[a].status = "in-progress"
       /\ findIndex(attempts[a].answers, "q1") # 0
       /\ view.questions["q1"].options # <<>>
       /\ Cardinality(CorrectnessVariants(Question("q1"))) > 1

(* ------------------------------ C12 ------------------------------------ *)
(* C12: for every attempt with resultPublished = false, whatever its       *)
(* status, the student's attempt list gives no totalScore for it and the   *)
(* attempt of the student view has no totalScore and no isCorrect or       *)
(* scoreAwarded on any answer.                                             *)
C12_UnpublishedHidesScores ==
  \A a \in DOMAIN attempts :
    LET att == attempts[a]
        view == getAttemptView(attempts, exam, a, att.userId).view
    IN ~att.resultPublished =>
         /\ \A published \in BOOLEAN :
              LET list == listAttemptsForUser(attempts, att.userId, published)
              IN \A k \in DOMAIN list : list[k].id = a => list[k].totalScore = NoNum
         /\ view.attempt.totalScore = NoNum
         /\ \A i \in DOMAIN view.attempt.answers :
              /\ view.attempt.answers[i].isCorrect = Undef
              /\ view.attempt.answers[i].scoreAwarded = NoNum

(* ------------------------------ C13 ------------------------------------ *)
(* C13: publish(a, p) on a stored attempt answers that attempt with        *)
(* resultPublished = p and status graded; every other field of it, and     *)
(* every other attempt, is as before.                                      *)
C13_PublishFrame ==
  \A a \in DOMAIN attempts, p \in BOOLEAN :
    LET att == attempts[a]
        r == publishResult(attempts, a, p)
    IN /\ r.err = Ok /\ r.id = a
       /\ DOMAIN r.store = DOMAIN attempts
       /\ r.store[a].resultPublished = p
       /\ r.store[a].status = "graded"
       /\ \A f \in DOMAIN att \ {"resultPublished", "status"} : r.store[a][f] = att[f]
       /\ \A b \in DOMAIN attempts \ {a} : r.store[b] = attempts[b]

(* a published attempt, answered and submitted, whose total is not the sum *)
(* of its answers' scores: a publish that recomputed it would show         *)
C13_Witness ==
  \E a \in DOMAIN attempts :
    /\ attempts[a].status = "graded" /\ attempts[a].resultPublished
    /\ attempts[a].submittedAt # NoNum
    /\ attempts[a].answers # <<>>
    /\ attempts[a].totalScore # sumScoreAwarded(attempts[a].answers)

(* ------------------------------ C14 ------------------------------------ *)
(* the student saved a chosenOptionId or a textAnswer for the question *)
hasAnswer(att, qid) ==
  \E i \in DOMAIN att.answers :
    /\ att.answers[i].questionId = qid
    /\ att.answers[i].chosenOptionId # Undef \/ att.answers[i].textAnswer # Undef

(* C14: the student view, and the explanation endpoint, give a question's  *)
(* explanation only when the attempt is a practice attempt and the student *)
(* has saved a chosenOptionId or textAnswer for that question.             *)
C14_ExplanationOnlyAfterAnswer ==
  \A a \in DOMAIN attempts :
    LET att == attempts[a]
        view == getAttemptView(attempts, exam, a, att.userId).view
    IN /\ \A qid \in DOMAIN view.questions :
            view.questions[qid].explanation # Undef =>
              att.mode = "practice" /\ hasAnswer(att, qid)
       /\ \A qid \in QuestionIds :
            getPracticeExplanation(attempts, a, att.userId, qid).explanation # Undef =>
              att.mode = "practice" /\ hasAnswer(att, qid)

(* ------------------------------ C15 ------------------------------------ *)
(* C15: view, saveAnswer, markForReview, submit, next and logActivity      *)
(* called on a stored attempt with a userId that is not the attempt's fail *)
(* with Forbidden and leave the store as it was, whatever the attempt's    *)
(* status, mode or deadline.                                               *)
C15_ForeignCallerForbidden ==
  \A a \in DOMAIN attempts : \A u \in Users \ {attempts[a].userId} :
    LET att == attempts[a]
        refused(r) == r.err = ErrForbidden /\ r.store = attempts
    IN /\ refused(getAttemptView(attempts, exam, a, u))
       /\ \A ai \in AiRuns(exam, att) :
            /\ \A answer \in AnswerBodies :
                 refused(saveAnswer(attempts, exam, a, u, answer, now, ai))
            /\ \A m \in MarkInputs :
                 refused(markForReview(attempts, exam, a, u, m[1], m[2], now, ai))
            /\ \A auto \in BOOLEAN :
                 refused(submitAttempt(attempts, exam, a, u, auto, now, ai))
       /\ \A chosen \in nextPool(exam, att) \cup {Undef} :
            refused(nextAdaptiveQuestion(attempts, exam, a, u, chosen))
       /\ \A type \in LogTypes : refused(logActivity(attempts, a, u, type, now))

(* another student saves an answer on a live attempt whose deadline has passed *)
C15_Witness ==
  \E a \in DOMAIN attempts : \E u \in Users \ {attempts[a].userId} :
    \E ai \in AiRuns(exam, attempts[a]) :
      /\ attempts[a].status = "in-progress" /\ attempts[a].answers # <<>>
      /\ pastDeadline(exam, attempts[a], now)
      /\ saveAnswer(attempts, exam, a, u, ctrlAnswer("q1", "o1", Undef), now, ai).err
           = ErrForbidden

(* ------------------------------ C16 ------------------------------------ *)
(* the caller is assigned by user id, or by a group, class or batch label  *)
(* of the profile                                                          *)
assignedTo(ex, u) ==
  \/ u \in ex.assignedUsers
  \/ \E g \in ex.groups : g \in {UserProfile(u).classLevel, UserProfile(u).batch} \ {Undef}
  \/ ex.classLevel # Undef /\ ex.classLevel = UserProfile(u).classLevel
  \/ ex.batch # Undef /\ ex.batch = UserProfile(u).batch

inScheduleWindow(ex, t) ==
  /\ ex.schedule.startAt # NoNum /\ ex.schedule.endAt # NoNum
  /\ ex.schedule.startAt <= t /\ t <= ex.schedule.endAt

(* C16: start is refused, storing nothing, exactly when the exam is        *)
(* unpublished or the caller is neither assigned (by user id or by a       *)
(* label) nor inside the exam's open schedule window; in every other case  *)
(* it is not refused.                                                      *)
C16_StartRefusedExactlyWhen ==
  \A u \in Users :
    LET r == startAttemptFind(attempts, exam, u, now)
        refusedByClaim == \/ ~exam.isPublished
                          \/ ~assignedTo(exam, u) /\ ~inScheduleWindow(exam, now)
    IN /\ (r.err = ErrNotAllowed) <=> refusedByClaim
       /\ r.err = ErrNotAllowed => r.store = attempts

(* ------------------------------ C17 ------------------------------------ *)
(* the attempt is open for saving: in progress and, when live with a total *)
(* duration, not past startedAt + totalDurationMins                        *)
editable(att) ==
  /\ att.status = "in-progress"
  /\ ~(/\ att.mode = "live" /\ exam.totalDurationMins > 0
       /\ now > att.startedAt + exam.totalDurationMins * MsPerMin)

(* the items of new are those of old but for the item keyed qid, which is item *)
onlyItemChanged(old, new, qid, item) ==
  LET idx == findIndex(old, qid)
  IN /\ Len(new) = (IF idx = 0 THEN Len(old) + 1 ELSE Len(old))
     /\ \A i \in DOMAIN old : i # idx => new[i] = old[i]
     /\ new[IF idx = 0 THEN Len(old) + 1 ELSE idx] = item

(* C17: a successful saveAnswer for question q replaces, in the item keyed *)
(* q, the fields the request carries and keeps its other fields; every     *)
(* other item, every other field of the attempt and every other attempt is *)
(* as before; markForReview changes isMarkedForReview of that item only.   *)
C17_SaveAnswerFrame ==
  \A a \in DOMAIN attempts :
    LET att == attempts[a]
        prior(qid) == IF findIndex(att.answers, qid) = 0
                      THEN [unsetAnswer EXCEPT !.questionId = qid]
                      ELSE att.answers[findIndex(att.answers, qid)]
        framed(r) == /\ r.err = Ok /\ r.id = a
                     /\ [r.store EXCEPT ![a].answers = att.answers] = attempts
    IN editable(att) =>
         \A ai \in AiRuns(exam, att) :
           /\ \A answer \in AnswerBodies :
                LET r == saveAnswer(attempts, exam, a, att.userId, answer, now, ai)
                    qid == answer.val.questionId
                IN /\ framed(r)
                   /\ onlyItemChanged(att.answers, r.store[a].answers, qid,
                        [f \in AnswerFields |-> IF f \in DOMAIN answer.val
                                                THEN answer.val[f] ELSE prior(qid)[f]])
           /\ \A m \in MarkInputs :
                LET r == markForReview(attempts, exam, a, att.userId, m[1], m[2], now, ai)
                IN /\ framed(r)
                   /\ onlyItemChanged(att.answers, r.store[a].answers, m[1],
                        [prior(m[1]) EXCEPT !.isMarkedForReview = m[2]])

(* ------------------------------ C18 ------------------------------------ *)
(* C18: a submit of the owner on an in-progress attempt succeeds and       *)
(* leaves it submitted or auto-submitted whichever grader calls fail; an   *)
(* answer whose grader call failed gets scoreAwarded 0 and the feedback    *)
(* 'AI grading unavailable', and every other answer gets the isCorrect and *)
(* scoreAwarded of the run in which no grader call fails.                  *)
C18_GraderFailureAbsorbed ==
  \A a \in DOMAIN attempts :
    LET att == attempts[a]
    IN att.status = "in-progress" =>
         \A auto \in BOOLEAN, ai \in AiRuns(exam, att) :
           LET failed == { i \in DOMAIN att.answers :
                             /\ att.answers[i].questionId \in examQuestionRefs(exam)
                             /\ Question(att.answers[i].questionId).type \in {"short", "long"}
                             /\ ai[i] = NoNum }
               noFailure == [i \in DOMAIN ai |-> IF i \in failed THEN 666 ELSE ai[i]]
               r == submitAttempt(attempts, exam, a, att.userId, auto, now, ai)
               r0 == submitAttempt(attempts, exam, a, att.userId, auto, now, noFailure)
           IN /\ r.err = Ok /\ r.id = a
              /\ r.store[a].status \in {"submitted", "auto-submitted"}
              /\ r.store[a].status = r0.store[a].status
              /\ \A i \in failed :
                   /\ r.store[a].answers[i].scoreAwarded = 0
                   /\ r.store[a].answers[i].aiFeedback = "AI grading unavailable"
              /\ \A i \in DOMAIN att.answers \ failed :
                   /\ r.store[a].answers[i].isCorrect = r0.store[a].answers[i].isCorrect
                   /\ r.store[a].answers[i].scoreAwarded = r0.store[a].answers[i].scoreAwarded

(* a submitted attempt with one answer graded correct and one the grader failed on *)
C18_Witness ==
  \E a \in DOMAIN attempts :
    /\ attempts[a].status \in {"submitted", "auto-submitted"}
    /\ \E i \in DOMAIN attempts[a].answers :
         /\ attempts[a].answers[i].aiFeedback = "AI grading unavailable"
         /\ attempts[a].answers[i].scoreAwarded = 0
    /\ \E j \in DOMAIN attempts[a].answers : attempts[a].answers[j].isCorrect = "true"

(* ------------------------------ C20 ------------------------------------ *)
(* C20: on an attempt that is open for saving, saveAnswer(q, x) for an mcq *)
(* question q of the exam followed by submit(auto = false) ends with       *)
(* status submitted and gives the answer to q isCorrect = (x is q's        *)
(* correct option) and scoreAwarded 1 if so, else 0; when q is the exam's  *)
(* only question, totalScore is that score.                                *)
C20_McqScenario ==
  \A a \in DOMAIN attempts :
    LET att == attempts[a]
        u == att.userId
    IN editable(att) =>
         \A qid \in examQuestionRefs(exam) \cap QuestionIds :
           Question(qid).type = "mcq" =>
             \A x \in Range(Question(qid).options) : \A ai0 \in AiRuns(exam, att) :
               LET saved == saveAnswer(attempts, exam, a, u, ctrlAnswer(qid, x, Undef), now, ai0).store
               IN \A ai \in AiRuns(exam, saved[a]) :
                    LET r == submitAttempt(saved, exam, a, u, FALSE, now, ai)
                        doc == r.store[a]
                        ans == doc.answers[findIndex(doc.answers, qid)]
                        right == x = Question(qid).correctOption
                    IN /\ r.err = Ok
                       /\ doc.status = "submitted"
                       /\ ans.chosenOptionId = x
                       /\ ans.isCorrect = (IF right THEN "true" ELSE "false")
                       /\ ans.scoreAwarded = (IF right THEN Point ELSE 0)
                       /\ examQuestionRefs(exam) = {qid} =>
                            doc.totalScore = (IF right THEN Point ELSE 0)

(* the scenario's end on the exam of one mcq question: answered wrong, total 0 *)
C20_Witness ==
  \E a \in DOMAIN attempts :
    /\ examQuestionRefs(exam) = {"q1"}
    /\ attempts[a].status = "submitted"
    /\ Len(attempts[a].answers) = 1
    /\ attempts[a].answers[1].chosenOptionId = "o1"
    /\ attempts[a].answers[1].isCorrect = "false"
    /\ attempts[a].totalScore = 0


(* ------------------------------ C21 ------------------------------------ *)
(* the question ids pick() can hand to a next() call on attempt a *)
NextChoices(a) ==
  IF a \in DOMAIN attempts /\ nextPool(exam, attempts[a]) # {}
  THEN nextPool(exam, attempts[a]) ELSE {Undef}

NoDuplicates(seq) == \A i, j \in DOMAIN seq : seq[i] = seq[j] => i = j

(* C21: in every reachable state, the currentDifficulty of every attempt   *)
(* is easy, medium or hard, its asked list holds no question id twice, and *)
(* no next() call on it returns a question id that is already in asked.    *)
C21_AdaptiveStateWellFormed ==
  \A a \in DOMAIN attempts :
    LET state == attempts[a].snapshot.adaptiveState
    IN /\ state.currentDifficulty \in {"easy", "medium", "hard"}
       /\ NoDuplicates(state.asked)
       /\ \A chosen \in NextChoices(a) :
            LET r == nextAdaptiveQuestion(attempts, exam, a, attempts[a].userId, chosen)
            IN r.q \notin Range(state.asked)

(* an adaptive attempt whose whole pool has been asked, and next() answers done *)
C21_Witness ==
  \E a \in DOMAIN attempts :
    /\ attempts[a].mode = "adaptive"
    /\ Len(attempts[a].snapshot.adaptiveState.asked) = 2
    /\ attempts[a].snapshot.adaptiveState.currentDifficulty = "easy"
    /\ nextAdaptiveQuestion(attempts, exam, a, attempts[a].userId, Undef).q = Done


(* ------------------------------ C22 ------------------------------------ *)
(* C22: for an adaptive attempt whose first question q1 was handed out by  *)
(* next() at medium difficulty and has no answer yet, a saveAnswer that    *)
(* carries q1's correct option followed by a next() call leaves            *)
(* currentDifficulty at hard.                                              *)
C22_CorrectFirstAnswerRaises ==
  \A a \in DOMAIN attempts :
    LET att == attempts[a]
    IN (/\ att.mode = "adaptive"
        /\ att.status = "in-progress"
        /\ att.answers = <<>>
        /\ att.snapshot.adaptiveState = [asked |-> <<"q1">>, currentDifficulty |-> "medium"])
       => LET saved == saveAnswer(attempts, exam, a, att.userId,
                                  ctrlAnswer("q1", Question("q1").correctOption, Undef), now, <<>>)
          IN /\ saved.err = Ok
             /\ \A chosen \in nextPool(exam, saved.store[a]) :
                  LET r == nextAdaptiveQuestion(saved.store, exam, a, att.userId, chosen)
                  IN /\ r.q = chosen
                     /\ r.store[a].snapshot.adaptiveState.currentDifficulty = "hard"


(* ------------------------------ C25 ------------------------------------ *)
(* C25: whenever a next() call on an adaptive attempt returns a question,  *)
(* the stored currentDifficulty is the old one moved by the last answer    *)
(* that has isCorrect set or a rubricScore: one rung up (at most hard) if  *)
(* that answer is correct or has rubricScore > 0.6, one rung down (at      *)
(* least easy) otherwise, and unchanged if there is no such answer.        *)
C25_LadderFollowsLastRecorded ==
  \A a \in DOMAIN attempts :
    LET att == attempts[a]
        answers == att.answers
        old == indexOf(att.snapshot.adaptiveState.currentDifficulty)
        rec == { i \in DOMAIN answers :
                   answers[i].isCorrect # Undef \/ answers[i].rubricScore # NoNum }
        last == CHOOSE i \in rec : \A k \in rec : k <= i
        expected ==
          IF rec = {} THEN old
          ELSE IF answers[last].isCorrect = "true" \/ answers[last].rubricScore > 600
          THEN (IF old = 3 THEN 3 ELSE old + 1)
          ELSE (IF old = 1 THEN 1 ELSE old - 1)
    IN att.mode = "adaptive" =>
         \A chosen \in NextChoices(a) :
           LET r == nextAdaptiveQuestion(attempts, exam, a, att.userId, chosen)
           IN r.q # Done =>
                r.store[a].snapshot.adaptiveState.currentDifficulty = DifficultyOrder[expected]


(* ------------------------------ C26 ------------------------------------ *)
(* C26: a next() call on an adaptive attempt answers done exactly when     *)
(* every question of the exam's pool is in asked; otherwise it returns a   *)
(* question that is not in asked, of the stored current difficulty when    *)
(* the pool has an unasked question of that difficulty, and the stored     *)
(* asked list is the old one with the returned id appended.                *)
C26_NextPicksFromPool ==
  \A a \in DOMAIN attempts :
    LET att == attempts[a]
        asked == att.snapshot.adaptiveState.asked
        unasked == { q \in QuestionIds : q \in examQuestionRefs(exam) /\ q \notin Range(asked) }
    IN att.mode = "adaptive" =>
         \A chosen \in NextChoices(a) :
           LET r == nextAdaptiveQuestion(attempts, exam, a, att.userId, chosen)
               state == r.store[a].snapshot.adaptiveState
               atLevel == { q \in unasked : Question(q).difficulty = state.currentDifficulty }
           IN /\ r.err = Ok
              /\ (r.q = Done) <=> (unasked = {})
              /\ r.q # Done =>
                   /\ r.q \in unasked
                   /\ atLevel # {} => r.q \in atLevel
                   /\ state.asked = Append(asked, r.q)

(* a next() call that finds no unasked question at the current difficulty  *)
(* and falls back to one of another difficulty                             *)
C26_Witness ==
  \E a \in DOMAIN attempts :
    /\ attempts[a].mode = "adaptive"
    /\ attempts[a].snapshot.adaptiveState.asked = <<"q1">>
    /\ \E chosen \in NextChoices(a) :
         LET r == nextAdaptiveQuestion(attempts, exam, a, attempts[a].userId, chosen)
         IN /\ r.q = "q3"
            /\ r.store[a].snapshot.adaptiveState.currentDifficulty = "medium"
            /\ Question("q3").difficulty # "medium"


(* ------------------------------ C27 ------------------------------------ *)
(* Runs in which students only start, save answers, mark for review and    *)
(* let time pass.                                                          *)
NextStudentEdits ==
  \/ \E u \in Users : startAttemptCtrl(u)
  \/ \E u \in Users : startAttemptDone(u)
  \/ \E u \in Users : startAttemptAgain(u)
  \/ \E a \in AttemptIds, u \in Users : \E answer \in BodiesOf(a, u) : saveAnswerCtrl(a, u, answer)
  \/ \E a \in AttemptIds, u \in Users : \E m \in MarksOf(a, u) : markForReviewCtrl(a, u, m[1], m[2])
  \/ Tick

SpecStudentEdits == Init /\ [][NextStudentEdits]_vars

ungraded(att) ==
  /\ att.status = "in-progress"
  /\ att.totalScore = NoNum
  /\ \A i \in DOMAIN att.answers :
       /\ att.answers[i].isCorrect = Undef
       /\ att.answers[i].scoreAwarded = NoNum
       /\ att.answers[i].rubricScore = NoNum
       /\ att.answers[i].aiFeedback = Undef

(* C27 as stated: in every state reached from start by save and mark       *)
(* operations only, every attempt is in-progress, has no totalScore, and   *)
(* none of its answers has isCorrect, scoreAwarded, rubricScore or         *)
(* aiFeedback set.                                                         *)
C27_SaveNeverGrades == \A a \in DOMAIN attempts : ungraded(attempts[a])

(* C27: in every state reached from start by save and mark operations      *)
(* only, every attempt either is in-progress with no totalScore and no     *)
(* answer carrying isCorrect, scoreAwarded, rubricScore or aiFeedback, or   *)
(* is a live attempt that was auto-submitted after its deadline.           *)
C27_SaveGradesOnlyWhenLate ==
  \A a \in DOMAIN attempts :
    \/ ungraded(attempts[a])
    \/ /\ attempts[a].status = "auto-submitted"
       /\ attempts[a].mode = "live"
       /\ exam.totalDurationMins # 0
       /\ attempts[a].submittedAt > attempts[a].startedAt + exam.totalDurationMins * MsPerMin

(* an in-progress attempt with two saved answers, one of them marked for   *)
(* review, and nothing graded                                              *)
C27_Witness ==
  \E a \in DOMAIN attempts :
    /\ ungraded(attempts[a])
    /\ Len(attempts[a].answers) = 2
    /\ \E i \in DOMAIN attempts[a].answers : attempts[a].answers[i].isMarkedForReview
    /\ \E i \in DOMAIN attempts[a].answers : attempts[a].answers[i].chosenOptionId = "o2"


(* ------------------------------ C23 ------------------------------------ *)
(* Exams of objective questions of every auto-graded type, next to a       *)
(* subjective one, taken by one student who saves, logs and submits.       *)
GradingExamConfigs ==
  { ExamOf("live", 1, SectionsObjective), ExamOf("practice", 0, SectionsCoded) }

InitGrading ==
  /\ exam \in GradingExamConfigs
  /\ attempts = <<>>
  /\ now = 0
  /\ starting = [u \in Users |-> 0]
  /\ starts = 1
  /\ inflight = <<>>

NextGrading ==
  \/ startAttemptCtrl("u1")
  \/ startAttemptDone("u1")
  \/ \E answer \in AnswerBodies : saveAnswerCtrl(1, "u1", answer)
  \/ \E auto \in BOOLEAN : submitAttemptCtrl(1, "u1", auto)
  \/ \E type \in LogInputs : logActivityCtrl(1, "u1", type)
  \/ Tick

SpecGrading == InitGrading /\ [][NextGrading]_vars

ObjectiveTypes == {"mcq", "truefalse", "fill", "assertionreason"}

(* what a submit assigns to the only answer of an attempt that holds just  *)
(* the chosenOptionId and textAnswer of ans, has no activity log, and is   *)
(* submitted by the student at its start time                              *)
gradedAlone(att, ans) ==
  LET alone == [att EXCEPT !.answers = << [unsetAnswer EXCEPT !.questionId = ans.questionId,
                                                              !.chosenOptionId = ans.chosenOptionId,
                                                              !.textAnswer = ans.textAnswer] >>,
                           !.activityLogs = <<>>]
  IN submitAttempt(<<alone>>, exam, 1, att.userId, FALSE, att.startedAt, <<NoNum>>).store[1].answers[1]

(* C23: for every in-progress attempt, every value of auto, every time of  *)
(* the call and every outcome of the AI grader calls, the isCorrect and    *)
(* scoreAwarded that submit assigns to an answer of an mcq, truefalse,     *)
(* fill or assertionreason question are those it assigns when that answer *)
(* is graded alone: they depend on the question and on the answer's        *)
(* chosenOptionId and textAnswer only.                                     *)
C23_ObjectiveGradingIsolated ==
  \A a \in DOMAIN attempts :
    attempts[a].status = "in-progress" =>
      \A auto \in BOOLEAN, ai \in AiRuns(exam, attempts[a]) :
        LET r == submitAttempt(attempts, exam, a, attempts[a].userId, auto, now, ai)
        IN /\ r.err = Ok
           /\ \A i \in DOMAIN attempts[a].answers :
                LET ans == attempts[a].answers[i]
                    out == r.store[a].answers[i]
                    ref == gradedAlone(attempts[a], ans)
                IN (/\ ans.questionId \in qmapKeys(exam)
                    /\ Question(ans.questionId).type \in ObjectiveTypes)
                   => /\ out.isCorrect = ref.isCorrect
                      /\ out.scoreAwarded = ref.scoreAwarded
                      /\ out.isCorrect \in {"true", "false"}

(* an attempt past its deadline with a log entry, whose third answer is a  *)
(* correct fill answer behind an essay the AI grader may fail on           *)
C23_Witness ==
  \E a \in DOMAIN attempts :
    /\ attempts[a].status = "in-progress"
    /\ pastDeadline(exam, attempts[a], now)
    /\ attempts[a].activityLogs # <<>>
    /\ Len(attempts[a].answers) = 3
    /\ attempts[a].answers[2].questionId = "q2"
    /\ attempts[a].answers[3].questionId = "q4"
    /\ \E ai \in AiRuns(exam, attempts[a]) :
         /\ ai[2] = NoNum
         /\ submitAttempt(attempts, exam, a, attempts[a].userId, FALSE, now, ai).store[a].answers[3].isCorrect = "true"


(* ------------------------------ overlapping calls ---------------------- *)
(* saveAnswer, submitAttempt and logActivity each read the attempt with    *)
(* Attempt.findById, await other reads, change the copy they hold and end  *)
(* with attempt.save().  inflight holds the calls that have read and not   *)
(* yet saved: doc is the copy a call read, arg its answer, auto flag or    *)
(* log type.  attempt.save() sends the paths the call changed: a push as   *)
(* $push, an assignment as $set of that path.                              *)
Call(op, a, u, doc, arg) == [op |-> op, a |-> a, u |-> u, doc |-> doc, arg |-> arg]

Remove(seq, i) == [k \in 1..(Len(seq) - 1) |-> IF k < i THEN seq[k] ELSE seq[k + 1]]

(* the version key of a stored attempt: every $push increments it *)
versionOf(doc) == Len(doc.answers) + Len(doc.activityLogs)

(* A save that sets elements of an array by position carries the version   *)
(* it read; when a push has moved the version since, the store refuses it  *)
(* (VersionError, nothing written) or applies it, depending on the         *)
(* versioning rules in force.                                              *)
SaveOutcomes(cur, doc, written, positional) ==
  IF positional /\ versionOf(cur) # versionOf(doc) THEN {cur, written} ELSE {written}

saveAnswerWrite_WholeDocument(cur, doc, answer) ==
  [doc EXCEPT !.answers = upsertAnswer(doc.answers, answer)]

(* attempt.answers[idx] = {...} or attempt.answers.push(answer), on cur *)
saveAnswerWrite(cur, doc, answer) ==
  LET idx == findIndex(doc.answers, answer.val.questionId)
  IN IF idx > 0 THEN [cur EXCEPT !.answers[idx] = mergeAnswer(doc.answers[idx], answer)]
     ELSE [cur EXCEPT !.answers = Append(@, mergeAnswer(unsetAnswer, answer))]

GradingFields == {"isCorrect", "scoreAwarded", "rubricScore", "aiFeedback"}

(* the paths the grading loop changed on the copy, and totalScore,         *)
(* submittedAt and status, on cur                                          *)
submitWrite(ex, cur, doc, auto, t, ai) ==
  LET g == submittedDoc(ex, doc, auto, t, ai)
  IN [cur EXCEPT
        !.answers = [i \in DOMAIN cur.answers |->
                       IF i \in DOMAIN doc.answers
                       THEN [k \in AnswerFields |->
                               IF k \in GradingFields /\ g.answers[i][k] # doc.answers[i][k]
                               THEN g.answers[i][k] ELSE cur.answers[i][k]]
                       ELSE cur.answers[i]],
        !.totalScore = g.totalScore,
        !.submittedAt = g.submittedAt,
        !.status = g.status]

submitPositional(ex, doc, auto, t, ai) ==
  submittedDoc(ex, doc, auto, t, ai).answers # doc.answers

(* attempt.activityLogs.push(...), on cur *)
logActivityWrite(cur, type, t) ==
  [cur EXCEPT !.activityLogs = Append(@, [at |-> t, type |-> type])]

saveAnswerFind(a, u, answer) ==
  /\ Len(inflight) < MaxInflight
  /\ a \in DOMAIN attempts
  /\ attempts[a].userId = u
  /\ attempts[a].status = "in-progress"
  /\ inflight' = Append(inflight, Call("saveAnswer", a, u, attempts[a], answer))
  /\ UNCHANGED <<exam, attempts, now, starting, starts>>

(* past the deadline the call goes on as submitAttempt(attemptId, userId,  *)
(* true), which reads the attempt again and checks its status              *)
saveAnswerSave(i) ==
  /\ i \in DOMAIN inflight
  /\ inflight[i].op = "saveAnswer"
  /\ LET c == inflight[i]
         cur == attempts[c.a]
     IN IF pastDeadline(exam, c.doc, now)
        THEN /\ inflight' = IF cur.status \in {"in-progress", "created"}
                            THEN [inflight EXCEPT ![i] = Call("submitAttempt", c.a, c.u, cur, TRUE)]
                            ELSE Remove(inflight, i)
             /\ UNCHANGED attempts
        ELSE /\ \E new \in SaveOutcomes(cur, c.doc, saveAnswerWrite(cur, c.doc, c.arg),
                                         findIndex(c.doc.answers, c.arg.val.questionId) > 0) :
                  attempts' = [attempts EXCEPT ![c.a] = new]
             /\ inflight' = Remove(inflight, i)
  /\ UNCHANGED <<exam, now, starting, starts>>

submitAttemptFind(a, u, auto) ==
  /\ Len(inflight) < MaxInflight
  /\ a \in DOMAIN attempts
  /\ attempts[a].userId = u
  /\ attempts[a].status \in {"in-progress", "created"}
  /\ inflight' = Append(inflight, Call("submitAttempt", a, u, attempts[a], auto))
  /\ UNCHANGED <<exam, attempts, now, starting, starts>>

submitAttemptSave(i) ==
  /\ i \in DOMAIN inflight
  /\ inflight[i].op = "submitAttempt"
  /\ LET c == inflight[i]
         cur == attempts[c.a]
     IN \E ai \in AiRuns(exam, c.doc) :
          \E new \in SaveOutcomes(cur, c.doc, submitWrite(exam, cur, c.doc, c.arg, now, ai),
                                  submitPositional(exam, c.doc, c.arg, now, ai)) :
            attempts' = [attempts EXCEPT ![c.a] = new]
  /\ inflight' = Remove(inflight, i)
  /\ UNCHANGED <<exam, now, starting, starts>>

logActivityFind(a, u, type) ==
  /\ Len(inflight) < MaxInflight
  /\ a \in DOMAIN attempts
  /\ attempts[a].userId = u
  /\ Len(attempts[a].activityLogs)
       + Cardinality({ i \in DOMAIN inflight : inflight[i].op = "logActivity" }) < MaxOverlapLogs
  /\ inflight' = Append(inflight, Call("logActivity", a, u, attempts[a], type))
  /\ UNCHANGED <<exam, attempts, now, starting, starts>>

logActivitySave(i) ==
  /\ i \in DOMAIN inflight
  /\ inflight[i].op = "logActivity"
  /\ attempts' = [attempts EXCEPT ![inflight[i].a] = logActivityWrite(@, inflight[i].arg, now)]
  /\ inflight' = Remove(inflight, i)
  /\ UNCHANGED <<exam, now, starting, starts>>

InitOverlap ==
  /\ exam \in {ExamOf("live", 1, SectionsSingle)}
  /\ attempts = <<>>
  /\ now = 0
  /\ starting = [u \in Users |-> 0]
  /\ starts = 1
  /\ inflight = <<>>

NextOverlap ==
  \/ startAttemptCtrl("u1")
  \/ startAttemptDone("u1")
  \/ \E answer \in AnswerBodies : saveAnswerFind(1, "u1", answer)
  \/ \E i \in 1..MaxInflight : saveAnswerSave(i)
  \/ \E auto \in BOOLEAN : submitAttemptFind(1, "u1", auto)
  \/ \E i \in 1..MaxInflight : submitAttemptSave(i)
  \/ \E type \in LogInputs : logActivityFind(1, "u1", type)
  \/ \E i \in 1..MaxInflight : logActivitySave(i)
  \/ Tick

SpecOverlap == InitOverlap /\ [][NextOverlap]_vars

(* ------------------------------ C24 ------------------------------------ *)
(* C24: in every step, also of calls that overlap on the same attempt, the *)
(* activityLogs of every attempt stay as they are or gain exactly one      *)
(* entry at the end; no entry is removed, moved or rewritten, and only a   *)
(* logActivity call adds one.                                              *)
C24_ActivityLogsAppendOnly ==
  [][\A a \in DOMAIN attempts :
       LET old == attempts[a].activityLogs
           new == attempts'[a].activityLogs
       IN \/ new = old
          \/ /\ Len(new) = Len(old) + 1
             /\ SubSeq(new, 1, Len(old)) = old
             /\ new[Len(new)].at = now
             /\ \E i \in DOMAIN inflight :
                  /\ inflight[i].op = "logActivity"
                  /\ inflight' = Remove(inflight, i)]_vars

(* two log entries and an answer written while a submitAttempt call that   *)
(* read the attempt before any of them has not saved yet                   *)
C24_Witness ==
  \E a \in DOMAIN attempts :
    /\ Len(attempts[a].activityLogs) = 2
    /\ attempts[a].answers # <<>>
    /\ \E i \in DOMAIN inflight :
         /\ inflight[i].op = "submitAttempt"
         /\ inflight[i].doc.activityLogs = <<>>
         /\ inflight[i].doc.answers = <<>>


(* ------------------------------ C28 ------------------------------------ *)
savesInFlight == { i \in DOMAIN inflight : inflight[i].op = "saveAnswer" }

oneItemPerQuestion(answers) ==
  \A i, j \in DOMAIN answers : answers[i].questionId = answers[j].questionId => i = j

(* C28: for saveAnswer calls that overlap on an in-progress attempt: once  *)
(* no saveAnswer call is in flight the answers hold at most one item per   *)
(* questionId; and the step in which a saveAnswer call completes leaves    *)
(* every item of another question in place and unchanged, and leaves       *)
(* either the call's own edit in the list or a list that differs from the  *)
(* one the call read (the edit of the call that overtook it).  Calls that  *)
(* a logActivity overtook are left aside.                                  *)
C28_OverlappingSavesKeepAnswers ==
  /\ [](savesInFlight = {} =>
          \A a \in DOMAIN attempts : oneItemPerQuestion(attempts[a].answers))
  /\ [][\A i \in DOMAIN inflight :
          (/\ inflight[i].op = "saveAnswer"
           /\ inflight' = Remove(inflight, i)
           /\ attempts'[inflight[i].a].status = "in-progress"
           /\ attempts[inflight[i].a].activityLogs = inflight[i].doc.activityLogs)
          => LET c == inflight[i]
                 qid == c.arg.val.questionId
                 item == mergeAnswer(unsetAnswer, c.arg)
                 old == attempts[c.a].answers
                 new == attempts'[c.a].answers
             IN /\ \A k \in DOMAIN old :
                     old[k].questionId # qid => (k \in DOMAIN new /\ new[k] = old[k])
                /\ \/ \E k \in DOMAIN new :
                          /\ new[k].questionId = qid
                          /\ new[k].chosenOptionId = item.chosenOptionId
                          /\ new[k].textAnswer = item.textAnswer
                   \/ new # c.doc.answers]_vars


(* ------------------------------ C29 ------------------------------------ *)
(* the step is the end of the in-flight call i, of kind op *)
completes(i, op) ==
  /\ i \in DOMAIN inflight
  /\ inflight[i].op = op
  /\ inflight' = Remove(inflight, i)

(* item carries the grade of its own chosenOptionId and textAnswer *)
gradedAsStored(item) ==
  (item.questionId \in qmapKeys(exam) /\ gradeObjective(Question(item.questionId), item).graded)
  => LET g == gradeObjective(Question(item.questionId), item)
     IN /\ item.isCorrect = (IF g.isCorrect THEN "true" ELSE "false")
        /\ item.scoreAwarded = g.score

(* C29: when a saveAnswer overlaps with a submit on the same attempt, the  *)
(* step in which the saveAnswer call ends adds or changes no AnswerItem of *)
(* an attempt that is already submitted or auto-submitted, and the step    *)
(* in which the submit ends an in-progress attempt leaves every stored     *)
(* answer graded for what it holds (a saved edit is absent or was graded)  *)
(* and totalScore equal to the sum of the stored scoreAwarded.             *)
C29_SaveSubmitConsistent ==
  [][\A i \in DOMAIN inflight :
       LET c == inflight[i]
           old == attempts[c.a]
           new == attempts'[c.a]
       IN /\ (completes(i, "saveAnswer") /\ terminal(old)) => new.answers = old.answers
          /\ (completes(i, "submitAttempt") /\ old.status = "in-progress" /\ terminal(new))
             => /\ \A k \in DOMAIN new.answers : gradedAsStored(new.answers[k])
                /\ new.totalScore = sumScoreAwarded(new.answers)]_vars


(* ------------------------------ C30 ------------------------------------ *)
(* C30: when submit paths overlap on an attempt (explicit submits, or a    *)
(* submit and the auto-submit of a late saveAnswer), one of them performs  *)
(* the transition and the other writes nothing: in no step are the         *)
(* status, submittedAt or totalScore of a submitted or auto-submitted      *)
(* attempt written again.                                                  *)
C30_SubmitWrittenOnce ==
  [][\A i \in DOMAIN inflight :
       LET old == attempts[inflight[i].a]
           new == attempts'[inflight[i].a]
       IN (completes(i, "submitAttempt") /\ terminal(old))
          => /\ new.status = old.status
             /\ new.submittedAt = old.submittedAt
             /\ new.totalScore = old.totalScore]_vars


(* ------------------------------ C31 ------------------------------------ *)
(* C31: a start call that has passed its findOne while another start call  *)
(* for the same exam and student is under way does not fail: its           *)
(* Attempt.create answers without an error, with the id of the one attempt *)
(* the pair has afterwards.                                                *)
C31_OverlappingStartsBothSucceed ==
  \A u \in Users :
    starting[u] > 0 =>
      \A qo \in questionOrders(exam), oo \in optionOrders(exam) :
        LET r == startAttemptCreate(attempts, exam, u, now, qo, oo)
        IN /\ r.err = Ok
           /\ r.id = findOne(r.store, ExamId, u)


(* ------------------------------ C32 ------------------------------------ *)
(* C32: whenever an attempt of the student exists, a start call of that    *)
(* student answers its id and leaves the store as it was, whether or not   *)
(* the exam is published, assigned to the student or inside its schedule   *)
(* window at the time of the call.                                         *)
C32_RepeatedStartReturnsAttempt ==
  \A u \in Users :
    LET id == findOne(attempts, ExamId, u)
        r == startAttemptFind(attempts, exam, u, now)
    IN id # 0 => (r.err = Ok /\ r.id = id /\ r.store = attempts)


(* ------------------------------ C33 ------------------------------------ *)
(* Exams the timing guard does not apply to: practice and adaptive exams   *)
(* with a total duration, and a live exam without one.                     *)
TimingExamConfigs ==
  { ExamOf("practice", 1, SectionsPractice),
    ExamOf("adaptive", 1, SectionsAdaptive),
    ExamOf("live", 0, SectionsSingle) }

InitTiming ==
  /\ exam \in TimingExamConfigs
  /\ attempts = <<>>
  /\ now = 0
  /\ starting = [u \in Users |-> 0]
  /\ starts = 1
  /\ inflight = <<>>

NextTiming ==
  \/ startAttemptCtrl("u1")
  \/ startAttemptDone("u1")
  \/ \E answer \in AnswerBodies : saveAnswerCtrl(1, "u1", answer)
  \/ \E m \in MarkInputs : markForReviewCtrl(1, "u1", m[1], m[2])
  \/ \E auto \in BOOLEAN : submitAttemptCtrl(1, "u1", auto)
  \/ Tick

SpecTiming == InitTiming /\ [][NextTiming]_vars

(* C33: for an in-progress attempt that is not live, or whose exam has no  *)
(* totalDurationMins, at every time: a saveAnswer of the owner succeeds,   *)
(* stores the chosenOptionId and textAnswer it carries in the item of its  *)
(* question and leaves the attempt in-progress, and a submit with auto =   *)
(* false records the status submitted.                                     *)
C33_TimingGuardOnlyLive ==
  \A a \in DOMAIN attempts :
    LET att == attempts[a]
    IN (att.status = "in-progress" /\ (att.mode # "live" \/ exam.totalDurationMins = 0)) =>
         \A ai \in AiRuns(exam, att) :
           /\ \A answer \in AnswerBodies :
                LET r == saveAnswer(attempts, exam, a, att.userId, answer, now, ai)
                    item == mergeAnswer(unsetAnswer, answer)
                IN /\ r.err = Ok
                   /\ r.store[a].status = "in-progress"
                   /\ r.store[a].submittedAt = NoNum
                   /\ \E k \in DOMAIN r.store[a].answers :
                        /\ r.store[a].answers[k].questionId = item.questionId
                        /\ r.store[a].answers[k].chosenOptionId = item.chosenOptionId
                        /\ r.store[a].answers[k].textAnswer = item.textAnswer
           /\ LET r == submitAttempt(attempts, exam, a, att.userId, FALSE, now, ai)
              IN r.err = Ok /\ r.store[a].status = "submitted"

(* a practice attempt with an answer, in progress two minutes after its    *)
(* start although the exam's total duration is one minute                  *)
C33_Witness ==
  \E a \in DOMAIN attempts :
    /\ attempts[a].status = "in-progress"
    /\ attempts[a].mode = "practice"
    /\ exam.totalDurationMins = 1
    /\ now = attempts[a].startedAt + 2 * MsPerMin
    /\ attempts[a].answers # <<>>


(* ------------------------------------------------------------------------ *)
(* C34: every operation that takes an attemptId (view, saveAnswer,          *)
(* markForReview, submit, next, logActivity, publish, adjustAnswerScore)    *)
(* fails with NotFound when no Attempt has that id, and changes nothing.    *)
(* The id asked for is the first one no stored Attempt has.                 *)
C34_UnknownAttemptNotFound ==
  LET a == Len(attempts) + 1
      refused(r) == r.err = ErrNotFound /\ r.store = attempts
  IN \A u \in Users :
       /\ refused(getAttemptView(attempts, exam, a, u))
       /\ \A answer \in AnswerBodies : refused(saveAnswer(attempts, exam, a, u, answer, now, <<>>))
       /\ \A m \in MarkInputs : refused(markForReview(attempts, exam, a, u, m[1], m[2], now, <<>>))
       /\ \A auto \in BOOLEAN : refused(submitAttempt(attempts, exam, a, u, auto, now, <<>>))
       /\ refused(nextAdaptiveQuestion(attempts, exam, a, u, Undef))
       /\ \A type \in LogInputs : refused(logActivity(attempts, a, u, type, now))
       /\ \A publish \in BOOLEAN : refused(publishResult(attempts, a, publish))
       /\ \A adj \in AdjustInputs : refused(adjustAnswerScore(attempts, a, adj[1], adj[2], adj[3]))


(* ------------------------------------------------------------------------ *)
(* Grading of assertionreason answers: one-question practice exams, one for *)
(* each setting of the three flags; the student saves letter answers and    *)
(* submits.                                                                 *)
LetterExamConfigs ==
  { ExamOf("practice", 0, << Section("s1", <<qid>>, FALSE, FALSE) >>) :
      qid \in {"q6"} \cup DOMAIN AssertionReasonFlags }

LetterTexts == {"a", "A", " b ", "B", "c", "C", "d", "D", ""}

(* request bodies: an option id (an ObjectId), a text, both or neither *)
LetterBodies ==
  { ctrlAnswer(qid, chosen, text) :
      qid \in examQuestionRefs(exam), chosen \in {Undef, "o1"}, text \in LetterTexts \cup {Undef} }

(* IAnswerItem values handed to gradeObjective, chosenOptionId codes included *)
LetterItems ==
  { [unsetAnswer EXCEPT !.questionId = qid, !.chosenOptionId = chosen, !.textAnswer = text] :
      qid \in examQuestionRefs(exam), chosen \in {Undef, "o1", "a", "B", "C", "d"},
      text \in LetterTexts \cup {Undef} }

InitLetters ==
  /\ exam \in LetterExamConfigs
  /\ attempts = <<>>
  /\ now = 0
  /\ starting = [u \in Users |-> 0]
  /\ starts = 1
  /\ inflight = <<>>

NextLetters ==
  \/ startAttemptCtrl("u1")
  \/ startAttemptDone("u1")
  \/ \E answer \in LetterBodies : saveAnswerCtrl(1, "u1", answer)
  \/ \E auto \in BOOLEAN : submitAttemptCtrl(1, "u1", auto)
  \/ Tick

SpecLetters == InitLetters /\ [][NextLetters]_vars

(* C35: for an assertionreason question the canonical letter is A (both     *)
(* true, reason explains), B (both true, reason does not explain), C        *)
(* (assertion true, reason false), D (assertion false, reason true); an     *)
(* answer is graded correct with score 1 iff its letter equals the          *)
(* canonical letter, and with both flags false every answer is graded       *)
(* incorrect with score 0.  The answer's letter is read from textAnswer     *)
(* when that is set and from chosenOptionId otherwise, in either case and   *)
(* with or without blanks around it.  Checked on every answer item handed   *)
(* to gradeObjective and on every answer a submit has graded.               *)
C35_AssertionReasonLetters ==
  LET Spelling == [A |-> {"a", "A"}, B |-> {" b ", "B"}, C |-> {"c", "C"}, D |-> {"d", "D"}]
      canonical(qq) == CASE qq.assertionIsTrue /\ qq.reasonIsTrue /\ qq.reasonExplainsAssertion -> "A"
                         [] qq.assertionIsTrue /\ qq.reasonIsTrue /\ ~qq.reasonExplainsAssertion -> "B"
                         [] qq.assertionIsTrue /\ ~qq.reasonIsTrue -> "C"
                         [] ~qq.assertionIsTrue /\ qq.reasonIsTrue -> "D"
                         [] OTHER -> Undef
      given(item) == IF item.textAnswer # Undef THEN item.textAnswer ELSE item.chosenOptionId
      right(qq, item) == /\ canonical(qq) # Undef
                         /\ given(item) \in Spelling[canonical(qq)]
  IN /\ \A ans \in LetterItems :
          LET q == Question(ans.questionId)
              g == gradeObjective(q, ans)
          IN /\ g.graded
             /\ g.isCorrect <=> right(q, ans)
             /\ g.score = IF right(q, ans) THEN Point ELSE 0
     /\ \A a \in DOMAIN attempts :
          attempts[a].status \in {"submitted", "auto-submitted"} =>
            \A i \in DOMAIN attempts[a].answers :
              LET ans == attempts[a].answers[i]
                  q == Question(ans.questionId)
              IN /\ ans.isCorrect = IF right(q, ans) THEN "true" ELSE "false"
                 /\ ans.scoreAwarded = IF right(q, ans) THEN Point ELSE 0
                 /\ attempts[a].totalScore = ans.scoreAwarded

(* a submitted attempt on the question whose canonical letter is C, whose   *)
(* answer "c" is graded correct                                             *)
C35_Witness ==
  \E a \in DOMAIN attempts :
    /\ attempts[a].status = "submitted"
    /\ \E i \in DOMAIN attempts[a].answers :
         /\ attempts[a].answers[i].questionId = "arTFT"
         /\ attempts[a].answers[i].textAnswer = "c"
         /\ attempts[a].answers[i].isCorrect = "true"
         /\ attempts[a].answers[i].scoreAwarded = Point


(* ------------------------------------------------------------------------ *)
(* C36: after a successful submit reached by student operations only (no    *)
(* teacher adjustment), every scoreAwarded that is set lies between 0 and 1 *)
(* point and 0 <= totalScore <= maxScore, maxScore being the number of      *)
(* question references counted at start.  Scores are in thousandths of a    *)
(* point.  The operations of SpecOverlap are the student's: start, save,    *)
(* submit, logActivity.                                                     *)
C36_SubmittedScoresBounded ==
  \A a \in DOMAIN attempts :
    attempts[a].status \in {"submitted", "auto-submitted"} =>
      /\ \A i \in DOMAIN attempts[a].answers :
           attempts[a].answers[i].scoreAwarded # NoNum =>
             attempts[a].answers[i].scoreAwarded \in 0..Point
      /\ attempts[a].maxScore = computeMaxScoreForExam(exam)
      /\ attempts[a].totalScore >= 0
      /\ attempts[a].totalScore <= attempts[a].maxScore * Point


(* ------------------------------------------------------------------------ *)
(* Answers for questions outside the exam: a one-question exam (q1); the    *)
(* student also posts answers for q4 and q2, which are questions of other   *)
(* exams, and for an id no question has.                                    *)
ForeignExamConfigs ==
  { ExamOf("live", 1, SectionsSingle), ExamOf("practice", 0, SectionsSingle) }

ForeignBodies ==
  { ctrlAnswer("q4", Undef, "paris"), ctrlAnswer("q2", Undef, "essay"),
    ctrlAnswer("q0", "o2", Undef) }

InitForeign ==
  /\ exam \in ForeignExamConfigs
  /\ attempts = <<>>
  /\ now = 0
  /\ starting = [u \in Users |-> 0]
  /\ starts = 1
  /\ inflight = <<>>

NextForeign ==
  \/ startAttemptCtrl("u1")
  \/ startAttemptDone("u1")
  \/ \E answer \in AnswerBodies \cup ForeignBodies : saveAnswerCtrl(1, "u1", answer)
  \/ \E auto \in BOOLEAN : submitAttemptCtrl(1, "u1", auto)
  \/ Tick

SpecForeign == InitForeign /\ [][NextForeign]_vars

(* C37: an AnswerItem whose questionId is not one of the exam's questions   *)
(* is never graded: saveAnswer stores it, submit leaves its isCorrect and   *)
(* scoreAwarded unset and it adds nothing to totalScore (totalScore is the  *)
(* sum of the scores of the answers to the exam's own questions).           *)
C37_ForeignAnswersUngraded ==
  \A a \in DOMAIN attempts :
    /\ attempts[a].status = "in-progress" /\ ~pastDeadline(exam, attempts[a], now) =>
         \A answer \in ForeignBodies :
           LET r == saveAnswer(attempts, exam, a, attempts[a].userId, answer, now,
                               [i \in DOMAIN attempts[a].answers |-> NoNum])
               idx == findIndex(r.store[a].answers, answer.val.questionId)
           IN /\ r.err = Ok
              /\ idx > 0
              /\ r.store[a].answers[idx] = mergeAnswer(unsetAnswer, answer)
    /\ attempts[a].status \in {"submitted", "auto-submitted"} =>
         LET own == { i \in DOMAIN attempts[a].answers :
                        attempts[a].answers[i].questionId \in examQuestionRefs(exam) }
         IN /\ \A i \in DOMAIN attempts[a].answers \ own :
                 /\ attempts[a].answers[i].isCorrect = Undef
                 /\ attempts[a].answers[i].scoreAwarded = NoNum
            /\ attempts[a].totalScore =
                 SumSeq([i \in DOMAIN attempts[a].answers |->
                           IF i \in own /\ attempts[a].answers[i].scoreAwarded # NoNum
                           THEN attempts[a].answers[i].scoreAwarded ELSE 0])

(* a submitted attempt that holds the right answer to q4, a question        *)
(* outside the exam, beside a wrong answer to q1: total 0                   *)
C37_Witness ==
  \E a \in DOMAIN attempts :
    /\ attempts[a].status = "submitted"
    /\ attempts[a].totalScore = 0
    /\ \E i, k \in DOMAIN attempts[a].answers :
         /\ attempts[a].answers[i].questionId = "q4"
         /\ attempts[a].answers[i].textAnswer = "paris"
         /\ attempts[a].answers[k].questionId = "q1"
         /\ attempts[a].answers[k].isCorrect = "false"


(* ------------------------------------------------------------------------ *)
(* C38: for an adaptive attempt over a pool of N questions, each next()     *)
(* call that returns a questionId makes adaptiveState.asked longer by       *)
(* exactly one (and no other operation changes asked); asked never holds    *)
(* more than N ids, so at most N calls return a question; with N ids asked  *)
(* next() answers done, a done answer changes nothing, and once next()      *)
(* answers done it answers done after every later step.                     *)
C38_NextTerminates ==
  /\ [](\A a \in DOMAIN attempts :
          LET asked == attempts[a].snapshot.adaptiveState.asked
              N == Cardinality({ q \in QuestionIds : q \in examQuestionRefs(exam) })
          IN attempts[a].mode = "adaptive" =>
               /\ Len(asked) <= N
               /\ \A chosen \in NextChoices(a) :
                    LET r == nextAdaptiveQuestion(attempts, exam, a, attempts[a].userId, chosen)
                    IN /\ r.err = Ok
                       /\ r.q # Done =>
                            Len(r.store[a].snapshot.adaptiveState.asked) = Len(asked) + 1
                       /\ r.q = Done => r.store = attempts
                       /\ Len(asked) = N => r.q = Done)
  /\ [][\A a \in DOMAIN attempts :
          LET asked == attempts[a].snapshot.adaptiveState.asked
              after == attempts'[a].snapshot.adaptiveState.asked
          IN attempts[a].mode = "adaptive" =>
               /\ after = asked \/ (Len(after) = Len(asked) + 1 /\ SubSeq(after, 1, Len(asked)) = asked)
               /\ nextAdaptiveQuestion(attempts, exam, a, attempts[a].userId, Undef).q = Done =>
                    nextAdaptiveQuestion(attempts', exam', a, attempts'[a].userId, Undef).q = Done]_vars

(* an adaptive attempt whose pool of two questions has been handed out by   *)
(* two next() calls: the third call answers done and stores nothing         *)
C38_Witness ==
  \E a \in DOMAIN attempts :
    /\ attempts[a].mode = "adaptive"
    /\ attempts[a].snapshot.adaptiveState.asked = <<"q1", "q3">>
    /\ LET r == nextAdaptiveQuestion(attempts, exam, a, attempts[a].userId, Undef)
       IN r.q = Done /\ r.store = attempts

====
